---- MODULE Spec2Model ----
(***************************************************************************)
(* A model of the IRMA client session engine (irmaclient/session.go):      *)
(* protocol version negotiation, the session task (start, do,              *)
(* sendResponse), the session lifetime functions (delete, fail, cancel,    *)
(* Dismiss) and the handler callbacks they produce.                        *)
(*                                                                         *)
(* Concurrency: the session task runs in its own goroutine ("go            *)
(* session.start()", "go session.do(proceed)"), Dismiss() runs in the      *)
(* application's goroutine.  session.done is read and written without any  *)
(* lock, and transport.Delete() is a blocking network call between the     *)
(* read and the write in delete().  The model interleaves the two          *)
(* goroutines at every read of session.done and at every network call,     *)
(* under sequentially consistent memory.                                   *)
(***************************************************************************)
EXTENDS Integers, Sequences, FiniteSets, TLC

\* ------------------------------------------------------------------ bounds

\* How many times the application calls Dismiss() on one session.
MaxDismiss == 2

\* The server version ranges tried by the version negotiation check:
\* majors 1..MaxVersionMajor, minors 0..MaxVersionMinor.
MaxVersionMajor == 3
MaxVersionMinor == 12

\* ------------------------------------------------------------------ strings

\* A Go string is modelled as a sequence of one-character strings.
Digits == <<"0", "1", "2", "3", "4", "5", "6", "7", "8", "9">>

IsDigit(c) == \E i \in 1..10 : Digits[i] = c

DigitValue(c) == (CHOOSE i \in 1..10 : Digits[i] = c) - 1

\* fmt.Sprintf("%d", n) for n >= 0
RECURSIVE FormatInt(_)
FormatInt(n) ==
    IF n < 10 THEN <<Digits[n + 1]>>
    ELSE FormatInt(n \div 10) \o <<Digits[(n % 10) + 1]>>

\* fmt.Sprintf("%d.%d", major, minor)
FormatVersion(major, minor) == FormatInt(major) \o <<".">> \o FormatInt(minor)

\* strconv.Atoi(string(s[i])) of the single byte at 0-based index i:
\* [err |-> TRUE] when the byte is no digit.
AtoiByte(s, i) ==
    IF IsDigit(s[i + 1]) THEN [err |-> FALSE, val |-> DigitValue(s[i + 1])]
    ELSE [err |-> TRUE, val |-> 0]

\* ------------------------------------------------------------------ version negotiation

\* supportedVersions = map[int][]int{2: {2, 1}}; minors reverse sorted.
supportedVersions == [major \in {2} |-> <<2, 1>>]

\* sort.Sort(sort.Reverse(sort.IntSlice(keys))): the majors, biggest first.
RECURSIVE SortedKeysDescending(_)
SortedKeysDescending(keys) ==
    IF keys = {} THEN <<>>
    ELSE LET top == CHOOSE k \in keys : \A j \in keys : j <= k
         IN  <<top>> \o SortedKeysDescending(keys \ {top})

\* The candidates in the iteration order of the nested loops.
RECURSIVE VersionsInOrder(_)
VersionsInOrder(majors) ==
    IF majors = <<>> THEN <<>>
    ELSE [i \in 1..Len(supportedVersions[Head(majors)]) |->
              <<Head(majors), supportedVersions[Head(majors)][i]>>]
         \o VersionsInOrder(Tail(majors))

aboveMinimum(major, minor, minmajor, minminor) ==
    major > minmajor \/ (major = minmajor /\ minor >= minminor)

underMaximum(major, minor, maxmajor, maxminor) ==
    major < maxmajor \/ (major = maxmajor /\ minor <= maxminor)

\* calcVersion(qr): [err |-> BOOLEAN, version |-> string]
calcVersion(q) ==
    LET minmajor == AtoiByte(q.ProtocolVersion, 0)
        minminor == AtoiByte(q.ProtocolVersion, 2)
        maxmajor == AtoiByte(q.ProtocolMaxVersion, 0)
        maxminor == AtoiByte(q.ProtocolMaxVersion, 2)
        order    == VersionsInOrder(SortedKeysDescending(DOMAIN supportedVersions))
        fits(i)  == /\ aboveMinimum(order[i][1], order[i][2], minmajor.val, minminor.val)
                    /\ underMaximum(order[i][1], order[i][2], maxmajor.val, maxminor.val)
        hits     == {i \in 1..Len(order) : fits(i)}
    IN  IF minmajor.err \/ minminor.err \/ maxmajor.err \/ maxminor.err
        THEN [err |-> TRUE, version |-> <<>>]
        ELSE IF hits = {}
        THEN [err |-> TRUE, version |-> <<>>]
        ELSE LET first == CHOOSE i \in hits : \A j \in hits : i <= j
             IN  [err |-> FALSE, version |-> FormatVersion(order[first][1], order[first][2])]

\* ------------------------------------------------------------------ state

VARIABLES
    qr,               \* the *irma.Qr handed to NewSession (NoQr before, and on manual sessions)
    schemeManagers,   \* client.Configuration.SchemeManagers: name -> descriptor
    keyshareServers,  \* client.keyshareServers: the managers the client is enrolled with
    session,          \* the session struct
    pc,               \* where the session's own task (start, do, sendResponse) is
    err,              \* the *irma.SessionError handed to the pending session.fail(err)
    ret,              \* where the task goes on when the pending fail/cancel returns
    dismisser,        \* TRUE when NewSession returned the session as SessionDismisser
    dpc,              \* where the application's Dismiss() call is
    nDismiss,         \* Dismiss() calls that have returned
    net,              \* requests sent to the requestor and keyshare sessions started
    cb,               \* invocations of each Handler callback
    lastFailure,      \* the error of the latest Handler.Failure
    lastSuccess,      \* the result string of the latest Handler.Success
    panicked,         \* the value of the panic a task has raised, if any
    permission,       \* the handler's answer to the permission request, if any
    client,           \* client.handler callbacks, the session log and the credentials
    dismissCancelled, \* TRUE once a Dismiss() has invoked Handler.Cancelled
    call              \* the latest call of a function outside a session, with its result

vars == <<qr, schemeManagers, keyshareServers, session, pc, err, ret, dismisser,
          dpc, nDismiss, net, cb, lastFailure, lastSuccess, panicked, permission, client,
          dismissCancelled, call>>

\* ------------------------------------------------------------------ values

ManagerNames == {"irma-demo", "test", "broken", "missing"}

\* SchemeManagerStatus values other than Valid
InvalidStatuses == {"Unparsable", "InvalidSignature", "IntegrityFailed", "ExpiredSignature"}

\* The irma.Action values a QR can carry that NewSession treats as a session
\* with a requestor, plus one it does not know.
SessionActions == {"disclosing", "signing", "issuing"}

NoQr == [Type |-> "", URL |-> "", ProtocolVersion |-> <<>>, ProtocolMaxVersion |-> <<>>]

NoError == [ErrorType |-> "", Info |-> ""]

SessionError(type, info) == [ErrorType |-> type, Info |-> info]

\* No Handler.Success yet.
NoResult == "(none)"

\* No panic raised.
NoPanic == [kind |-> "", text |-> ""]

\* An IrmaIdentifierSet
IdentifierSet(managers, issuers, credtypes) ==
    [SchemeManagers |-> managers, Issuers |-> issuers, CredentialTypes |-> credtypes]

NoIdentifiers == IdentifierSet({}, {}, {})

\* The identifier set Configuration.Download hands back, as the set
\* UpdateConfiguration receives: the descriptors the download added.
DownloadedSet(downloaded) ==
    IF downloaded = "nonempty"
    THEN IdentifierSet({}, {"irma-demo.RU"}, {"irma-demo.RU.studentCard"})
    ELSE NoIdentifiers

\* The session log the client starts with: the entry of an earlier session.
EarlierLogs == <<"issuing">>

\* The description of a scheme manager, as DownloadSchemeManager hands it to
\* managerSession.
NoManager == [name |-> "", Distributed |-> FALSE]

\* No function has been called outside a session.
NoCall == [op |-> ""]

NoSession ==
    [Action |-> "", Version |-> <<>>, ServerURL |-> "", done |-> FALSE,
     downloaded |-> "nil", ids |-> {}, credentials |-> <<>>,
     CredentialInfoList |-> <<>>, message |-> "", manager |-> NoManager,
     started |-> FALSE, disjunctions |-> <<>>, missing |-> <<>>, choices |-> 0]

\* ------------------------------------------------------------------ identifiers

\* An identifier is kept as the sequence of the parts of its dotted string:
\* a scheme manager has one part, an issuer two, a credential type three and
\* an attribute type four.  The parent of an identifier is a prefix of it.
SchemeManagerIdentifier(id) == SubSeq(id, 1, 1)

IssuerIdentifier(id) == SubSeq(id, 1, 2)

CredentialTypeIdentifier(id) == SubSeq(id, 1, 3)

\* AttributeTypeIdentifier.IsCredential(): the identifier names a credential
\* type, not one of its attributes.
IsCredential(attr) == Len(attr) = 3

\* The dotted string of an identifier.
RECURSIVE String(_)
String(id) ==
    IF Len(id) = 0 THEN ""
    ELSE IF Len(id) = 1 THEN id[1]
    ELSE id[1] \o "." \o String(Tail(id))

StudentCard == <<"irma-demo", "RU", "studentCard">>

MijnOverheidRoot == <<"irma-demo", "MijnOverheid", "root">>

MijnIrma == <<"test", "test", "mijnirma">>

KnownCredentialTypes == {StudentCard, MijnOverheidRoot, MijnIrma}

\* NewCredentialTypeIdentifier(s): the identifier whose dotted string is s.
NewCredentialTypeIdentifier(s) ==
    IF \E id \in KnownCredentialTypes : String(id) = s
    THEN CHOOSE id \in KnownCredentialTypes : String(id) = s
    ELSE <<s>>

\* ------------------------------------------------------------------ credentials

\* A stored credential: its type, its index among the stored credentials of
\* the type, the value of each of its attributes, and whether it has expired.
Credential(type, index, values, expired) ==
    [type |-> type, index |-> index, values |-> values, expired |-> expired]

\* The credentials of the test storage: a student card and a MijnIRMA login.
TestStorage ==
    {Credential(StudentCard, 0,
                [university |-> "Radboud", studentCardNumber |-> "0812345673",
                 studentID |-> "456", level |-> "42"], FALSE),
     Credential(MijnIrma, 0, [email |-> "testusername"], FALSE)}

\* AttributeList.Hash(): the hash of the content of a credential's attribute
\* list, in which the credential type is recorded.
Hash(c) == <<"hash", c.type, c.values>>

\* client.credential(id, counter): the stored credential, or none.
NoCredential == [type |-> <<>>, index |-> 0, values |-> <<>>, expired |-> FALSE]

credential(credentials, id, counter) ==
    IF \E c \in credentials : c.type = id /\ c.index = counter
    THEN CHOOSE c \in credentials : c.type = id /\ c.index = counter
    ELSE NoCredential

\* A deletion that leaves the credential where it is.
remove_Kept(credentials, id, index) == credentials

\* The internal deletion both removals end in: the credential at (id, index)
\* leaves the wallet, the others stay where they are.
remove(credentials, id, index) ==
    {c \in credentials : ~(c.type = id /\ c.index = index)}

\* client.RemoveCredential(id, index)
RemoveCredential(credentials, id, index) == remove(credentials, id, index)

\* client.RemoveCredentialByHash(hash): the credential with this hash is
\* looked up and removed by its type and index; no such credential, no change.
RemoveCredentialByHash(credentials, hash) ==
    IF \E c \in credentials : Hash(c) = hash
    THEN LET c == CHOOSE c \in credentials :
                      /\ Hash(c) = hash
                      /\ \A d \in credentials : Hash(d) = hash => c.index <= d.index
         IN  remove(credentials, c.type, c.index)
    ELSE credentials

\* ------------------------------------------------------------------ sessions

Bump(r, f) == [r EXCEPT ![f] = @ + 1]

\* session.IsInteractive()
IsInteractive(s) == s.ServerURL # ""

\* Distributed(conf) that finds no distributed scheme manager.
Distributed_Never(ids) == FALSE

\* IrmaIdentifierSet.Distributed(conf): some scheme manager of the set is distributed
Distributed(ids) ==
    \E id \in ids : id \in DOMAIN schemeManagers /\ schemeManagers[id].Distributed

\* ------------------------------------------------------------------ initial state

InitConfiguration(status) ==
    [id \in {"irma-demo", "test", "broken"} |->
        CASE id = "irma-demo" -> [Valid |-> TRUE,  Status |-> "Valid", Distributed |-> FALSE]
          [] id = "test"      -> [Valid |-> TRUE,  Status |-> "Valid", Distributed |-> TRUE]
          [] id = "broken"    -> [Valid |-> FALSE, Status |-> status,  Distributed |-> FALSE]]

InitWith(credentials) ==
    /\ qr = NoQr
    /\ session = NoSession
    /\ pc = "idle"
    /\ err = NoError
    /\ ret = "ended"
    /\ dismisser = FALSE
    /\ dpc = "idle"
    /\ nDismiss = 0
    /\ net = [get |-> 0, post |-> 0, delete |-> 0, keyshare |-> 0, download |-> 0,
              response |-> ""]
    /\ cb = [StatusUpdate |-> 0, Success |-> 0, Cancelled |-> 0, Failure |-> 0,
             UnsatisfiableRequest |-> 0, RequestPermission |-> 0,
             RequestSchemeManagerPermission |-> 0,
             KeyshareBlocked |-> 0, KeyshareEnrollmentMissing |-> 0]
    /\ lastFailure = NoError
    /\ lastSuccess = NoResult
    /\ panicked = NoPanic
    /\ permission = "none"
    /\ client = [UpdateConfiguration |-> 0, UpdateAttributes |-> 0,
                 announced |-> NoIdentifiers, logs |-> EarlierLogs,
                 credentials |-> credentials]
    /\ dismissCancelled = FALSE
    /\ call = NoCall

\* The client as parseStorage() sets it up: with the test storage.
InitCommon == InitWith(TestStorage)

Init ==
    /\ InitCommon
    /\ \E status \in InvalidStatuses : schemeManagers = InitConfiguration(status)
    /\ keyshareServers \in {{}, {"test"}}

\* ------------------------------------------------------------------ session lifetime

appVars == <<dismisser, dpc, nDismiss, dismissCancelled>>
seenVars == <<lastSuccess, panicked, permission>>
confVars == <<schemeManagers, keyshareServers>>

\* delete() with its guard inverted: if session.done { ... }
deleteGuard_Inverted(s) == s.done

\* delete(): the read of session.done that guards it
deleteGuard(s) == ~s.done

\* delete(): transport.Delete() when the session is interactive
deleteRequests(s, n) == IF IsInteractive(s) THEN Bump(n, "delete") ELSE n

\* delete() without session.done = true
deleteMarks_Forgotten(s) == s

\* delete(): session.done = true
deleteMarks(s) == [s EXCEPT !.done = TRUE]

\* fail() and cancel(): client.handler.UpdateConfiguration(session.downloaded)
\* when session.downloaded != nil && !session.downloaded.Empty()
announceDownloaded(s, c) ==
    IF s.downloaded = "nonempty"
    THEN [c EXCEPT !.UpdateConfiguration = @ + 1, !.announced = DownloadedSet(s.downloaded)]
    ELSE c

\* The session task calls session.fail(e) and goes on at r when it returns.
CallFail(e, r) == pc' = "fail" /\ err' = e /\ ret' = r

\* The session task calls session.cancel().
CallCancel == pc' = "cancel" /\ err' = NoError /\ ret' = "ended"

\* fail(): delete() reads session.done; when it is set, fail() does nothing.
FailCheck ==
    /\ pc = "fail"
    /\ pc' = IF deleteGuard(session) THEN "failing" ELSE ret
    /\ UNCHANGED <<qr, confVars, seenVars, session, err, ret, appVars, net, cb, lastFailure, client>>
    /\ UNCHANGED call

\* fail(): the rest of delete(), then UpdateConfiguration and Handler.Failure.
FailDelete ==
    /\ pc = "failing"
    /\ net' = deleteRequests(session, net)
    /\ session' = deleteMarks(session)
    /\ client' = announceDownloaded(session, client)
    /\ cb' = Bump(cb, "Failure")
    /\ lastFailure' = err
    /\ pc' = ret
    /\ UNCHANGED <<qr, confVars, seenVars, err, ret, appVars>>
    /\ UNCHANGED call

\* cancel(), called by the session task (do(false), KeyshareCancelled).
CancelCheck ==
    /\ pc = "cancel"
    /\ pc' = IF deleteGuard(session) THEN "cancelling" ELSE ret
    /\ UNCHANGED <<qr, confVars, seenVars, session, err, ret, appVars, net, cb, lastFailure, client>>
    /\ UNCHANGED call

CancelDelete ==
    /\ pc = "cancelling"
    /\ net' = deleteRequests(session, net)
    /\ session' = deleteMarks(session)
    /\ client' = announceDownloaded(session, client)
    /\ cb' = Bump(cb, "Cancelled")
    /\ pc' = ret
    /\ UNCHANGED <<qr, confVars, seenVars, err, ret, appVars, lastFailure>>
    /\ UNCHANGED call

\* Dismiss(), called by the application on the SessionDismisser: cancel(),
\* whose delete() reads session.done.
DismissCheck ==
    /\ dismisser
    /\ pc # "crashed"
    /\ dpc = "idle"
    /\ nDismiss < MaxDismiss
    /\ IF deleteGuard(session)
       THEN dpc' = "cancelling" /\ nDismiss' = nDismiss
       ELSE dpc' = "idle" /\ nDismiss' = nDismiss + 1
    /\ UNCHANGED <<qr, confVars, seenVars, session, pc, err, ret, dismisser, net, cb,
                   lastFailure, client, dismissCancelled>>
    /\ UNCHANGED call

\* Dismiss(): the rest of delete(), then UpdateConfiguration and Handler.Cancelled.
DismissDelete ==
    /\ dpc = "cancelling"
    /\ pc # "crashed"
    /\ net' = deleteRequests(session, net)
    /\ session' = deleteMarks(session)
    /\ client' = announceDownloaded(session, client)
    /\ cb' = Bump(cb, "Cancelled")
    /\ dismissCancelled' = TRUE
    /\ dpc' = "idle"
    /\ nDismiss' = nDismiss + 1
    /\ UNCHANGED <<qr, confVars, seenVars, pc, err, ret, dismisser, lastFailure>>
    /\ UNCHANGED call

\* The values a task can panic with: a string, an error (every runtime
\* panic is one), a fmt.Stringer, and a value that is none of these, such as
\* panic(42).  text is the value's string representation.
PanicValues ==
    {[kind |-> "string",   text |-> "Invalid session type"],
     [kind |-> "error",    text |-> "runtime error: invalid memory address or nil pointer dereference"],
     [kind |-> "stringer", text |-> "unexpected state"],
     [kind |-> "other",    text |-> "42"]}

NilDereference == CHOOSE e \in PanicValues : e.kind = "error"

\* panicToError(e): the type switch sets Info for a string, an error and a
\* fmt.Stringer, and has a default case that leaves it empty.
panicToError(e) ==
    SessionError("ErrorPanic",
                 CASE e.kind = "string"   -> e.text
                   [] e.kind = "error"    -> e.text
                   [] e.kind = "stringer" -> e.text
                   [] OTHER               -> "")

\* panicFailure(): a recovered panic goes to Handler.Failure, and nothing else.
PanicFailure(e) ==
    /\ panicked' = e
    /\ cb' = Bump(cb, "Failure")
    /\ lastFailure' = panicToError(e)
    /\ pc' = "ended"

\* ------------------------------------------------------------------ creating a session

QrURL == "https://requestor/irma"

\* if !strings.HasSuffix(session.ServerURL, "/") { session.ServerURL += "/" }
WithTrailingSlash(url) == IF url = QrURL THEN "https://requestor/irma/" ELSE url

\* session.fail(e) inside NewSession, before any other goroutine exists.
FailInNewSession(s, e) ==
    /\ net' = deleteRequests(s, net)
    /\ session' = deleteMarks(s)
    /\ client' = announceDownloaded(s, client)
    /\ cb' = Bump(cb, "Failure")
    /\ lastFailure' = e
    /\ pc' = "ended"
    /\ dismisser' = FALSE

NewSession(q) ==
    /\ pc = "idle"
    /\ ~session.started
    /\ qr' = q
    /\ LET s == [NoSession EXCEPT !.ServerURL = q.URL, !.Action = q.Type, !.started = TRUE]
           v == calcVersion(q)
       IN  IF q.Type = "schememanager"
           THEN /\ session' = s
                /\ pc' = "managerSession"
                /\ dismisser' = TRUE
                /\ UNCHANGED <<net, cb, lastFailure, client>>
           ELSE IF v.err
           THEN FailInNewSession(s, SessionError("ProtocolVersionNotSupported", ""))
           ELSE IF q.Type \notin SessionActions
           THEN FailInNewSession([s EXCEPT !.Version = v.version],
                                 SessionError("UnknownAction", q.Type))
           ELSE /\ session' = [s EXCEPT !.Version = v.version,
                                        !.ServerURL = WithTrailingSlash(q.URL)]
                /\ pc' = "start"
                /\ dismisser' = TRUE
                /\ UNCHANGED <<net, cb, lastFailure, client>>
    /\ UNCHANGED <<confVars, seenVars, err, ret, dpc, nDismiss,
                   dismissCancelled>>
    /\ UNCHANGED call

\* NewManualSession(json, handler): the request of a manual session names the
\* scheme managers ids; there is no SessionDismisser.
NewManualSession(jsonOK, ids) ==
    /\ pc = "idle"
    /\ ~session.started
    /\ IF ~jsonOK
       THEN /\ ids = {}
            /\ session' = [NoSession EXCEPT !.started = TRUE]
            /\ cb' = Bump(cb, "Failure")
            /\ lastFailure' = SessionError("", "")
            /\ pc' = "ended"
       ELSE /\ session' = [NoSession EXCEPT !.Action = "signing", !.Version = <<"2">>,
                                            !.ids = ids, !.started = TRUE]
            /\ cb' = Bump(cb, "StatusUpdate")
            /\ pc' = "resolving"
            /\ UNCHANGED lastFailure
    /\ UNCHANGED <<qr, confVars, seenVars, err, ret, appVars, net, client>>
    /\ UNCHANGED call

\* ------------------------------------------------------------------ start()

\* start(): StatusUpdate(Communicating), then transport.Get("jwt", session.info).
Start ==
    /\ pc = "start"
    /\ cb' = Bump(cb, "StatusUpdate")
    /\ net' = Bump(net, "get")
    /\ pc' = "fetching"
    /\ UNCHANGED <<qr, confVars, seenVars, session, err, ret, appVars, lastFailure, client>>
    /\ UNCHANGED call

\* start(): the GET returns.  It fails, or the JWT does not parse, or the JWT
\* holds no request (SetContext then dereferences nil and panicFailure
\* recovers), or the request names the scheme managers ids.
GetReturns(outcome, ids) ==
    /\ pc = "fetching"
    /\ CASE outcome = "error" ->
              /\ ids = {}
              /\ CallFail(SessionError("Transport", ""), "ended")
              /\ UNCHANGED <<session, cb, lastFailure>>
         [] outcome = "badjwt" ->
              /\ ids = {}
              /\ CallFail(SessionError("InvalidJWT", ""), "ended")
              /\ UNCHANGED <<session, cb, lastFailure>>
         [] outcome = "nilrequest" ->
              /\ ids = {}
              /\ PanicFailure(NilDereference)
              /\ UNCHANGED <<session, err, ret>>
         [] outcome = "ok" ->
              /\ session' = [session EXCEPT !.ids = ids]
              /\ pc' = "resolving"
              /\ UNCHANGED <<err, ret, cb, lastFailure>>
    /\ outcome # "nilrequest" => UNCHANGED panicked
    /\ UNCHANGED <<qr, confVars, lastSuccess, permission, appVars, net, client>>
    /\ UNCHANGED call

\* ------------------------------------------------------------------ checkAndUpateConfiguration()

\* The first loop without its check of manager.Valid.
FailingManagers_NoValidity(ids) ==
    {id \in ids : id \notin DOMAIN schemeManagers}

\* The scheme managers at which the first loop of checkAndUpateConfiguration
\* stops.  The loop ranges over a Go map, whose order is not specified: any
\* of them can be the first one met.
FailingManagers(ids) ==
    {id \in ids : id \notin DOMAIN schemeManagers \/ ~schemeManagers[id].Valid}

\* The first loop with the two error types exchanged.
ConfigurationError_Swapped(id) ==
    IF id \notin DOMAIN schemeManagers
    THEN SessionError("InvalidSchemeManager", id)
    ELSE SessionError("UnknownSchemeManager", schemeManagers[id].Status)

\* The error the first loop reports for the manager it stops at.
ConfigurationError(id) ==
    IF id \notin DOMAIN schemeManagers
    THEN SessionError("UnknownSchemeManager", id)
    ELSE SessionError("InvalidSchemeManager", schemeManagers[id].Status)

\* checkKeyshareEnrollment() returning true without looking at anything.
EnrollmentFailures_Ignored(ids) == {}

\* checkKeyshareEnrollment(): the managers at which its loop stops.
EnrollmentFailures(ids) ==
    {id \in ids : \/ id \notin DOMAIN schemeManagers
                  \/ (schemeManagers[id].Distributed /\ id \notin keyshareServers)}

\* checkAndUpateConfiguration() up to the call of Configuration.Download.
CheckConfiguration ==
    /\ pc = "resolving"
    /\ IF FailingManagers(session.ids) # {}
       THEN /\ \E id \in FailingManagers(session.ids) :
                   CallFail(ConfigurationError(id), "ended")
            /\ UNCHANGED <<cb, lastFailure, net>>
       ELSE IF EnrollmentFailures(session.ids) # {}
       THEN /\ \E id \in EnrollmentFailures(session.ids) :
                   IF id \notin DOMAIN schemeManagers
                   THEN /\ cb' = Bump(cb, "Failure")
                        /\ lastFailure' = SessionError("UnknownSchemeManager", id)
                   ELSE /\ cb' = Bump(cb, "KeyshareEnrollmentMissing")
                        /\ UNCHANGED lastFailure
            /\ pc' = "ended"
            /\ UNCHANGED <<err, ret, net>>
       ELSE /\ net' = Bump(net, "download")
            /\ pc' = "downloading"
            /\ UNCHANGED <<err, ret, cb, lastFailure>>
    /\ UNCHANGED <<qr, confVars, seenVars, session, appVars, client>>
    /\ UNCHANGED call

\* Configuration.Download returns: session.downloaded is what it returned.
DownloadReturns(ok, downloaded) ==
    /\ pc = "downloading"
    /\ session' = [session EXCEPT !.downloaded = downloaded]
    /\ IF ok
       THEN /\ downloaded # "nil"
            /\ pc' = IF session.Action = "issuing" /\ IsInteractive(session)
                     THEN "credinfo" ELSE "checking"
            /\ UNCHANGED <<err, ret>>
       ELSE CallFail(SessionError("ConfigurationDownload", ""), "ended")
    /\ UNCHANGED <<qr, confVars, seenVars, appVars, net, cb, lastFailure, client>>
    /\ UNCHANGED call

\* ------------------------------------------------------------------ credential requests

MaxCredentials == 2

\* conf.CredentialTypes: the attribute types each known credential type
\* declares, in their order.
CredentialTypes ==
    [id \in {"irma-demo.RU.studentCard", "irma-demo.MijnOverheid.root"} |->
        IF id = "irma-demo.RU.studentCard" THEN <<"university", "level">> ELSE <<"BSN">>]

\* An attribute map with the keys keys.
AttributeMap(keys) == [k \in keys |-> "value of " \o k]

\* A CredentialRequest; validityOK tells whether setExpiryDate accepts its
\* Validity.
CredentialRequest(credtype, keys, validityOK) ==
    [CredentialTypeID |-> credtype, Attributes |-> AttributeMap(keys),
     validityOK |-> validityOK]

\* The credential requests a requestor can send: the declared keys, a key
\* missing, a key too many, as many keys with one of them undeclared, no key,
\* an unknown credential type, an unusable validity.
CredentialRequestInputs ==
    {CredentialRequest("irma-demo.RU.studentCard", keys, TRUE) :
        keys \in {{"university", "level"}, {"university"}, {"university", "level", "extra"},
                  {"university", "extra"}, {}}}
    \cup {CredentialRequest("irma-demo.MijnOverheid.root", {"BSN"}, TRUE),
          CredentialRequest("irma-demo.RU.unknown", {"university", "level"}, TRUE),
          CredentialRequest("irma-demo.RU.studentCard", {"university", "level"}, FALSE)}

\* The lists of at most MaxCredentials credential requests.
CredentialLists ==
    UNION {[1..n -> CredentialRequestInputs] : n \in 0..MaxCredentials}

\* AttributeList without the comparison of the two lengths.
AttributeList_AnyLength(cr) ==
    LET known == cr.CredentialTypeID \in DOMAIN CredentialTypes
        declared == IF known THEN CredentialTypes[cr.CredentialTypeID] ELSE <<>>
    IN  IF ~cr.validityOK \/ ~known
            \/ (\E i \in 1..Len(declared) : declared[i] \notin DOMAIN cr.Attributes)
        THEN [err |-> TRUE, attrs |-> <<>>]
        ELSE [err |-> FALSE,
              attrs |-> [i \in 1..Len(declared) |-> cr.Attributes[declared[i]]]]

\* CredentialRequest.AttributeList(conf): the attribute values in the order
\* the credential type declares them, or an error.
AttributeList(cr) ==
    LET known == cr.CredentialTypeID \in DOMAIN CredentialTypes
        declared == IF known THEN CredentialTypes[cr.CredentialTypeID] ELSE <<>>
    IN  IF ~cr.validityOK
        THEN [err |-> TRUE, attrs |-> <<>>]
        ELSE IF ~known
        THEN [err |-> TRUE, attrs |-> <<>>]
        ELSE IF Len(declared) # Cardinality(DOMAIN cr.Attributes)
        THEN [err |-> TRUE, attrs |-> <<>>]
        ELSE IF \E i \in 1..Len(declared) : declared[i] \notin DOMAIN cr.Attributes
        THEN [err |-> TRUE, attrs |-> <<>>]
        ELSE [err |-> FALSE,
              attrs |-> [i \in 1..Len(declared) |-> cr.Attributes[declared[i]]]]

\* CredentialRequest.Info(conf): the preview of the credential.
Info(cr) ==
    LET list == AttributeList(cr)
    IN  [err |-> list.err,
         info |-> [CredentialTypeID |-> cr.CredentialTypeID, Attributes |-> list.attrs]]

\* start(): the loop over ir.Credentials that appends each preview to
\* ir.CredentialInfoList and stops at the first error.
RECURSIVE CredentialInfos(_, _)
CredentialInfos(credentials, list) ==
    IF credentials = <<>>
    THEN [err |-> FALSE, list |-> list]
    ELSE LET i == Info(Head(credentials))
         IN  IF i.err
             THEN [err |-> TRUE, list |-> list]
             ELSE CredentialInfos(Tail(credentials), Append(list, i.info))

\* ir.CredentialInfoList of the issuance request as ParseRequestorJwt hands
\* it over: the requestor sends credential requests and no previews.
ParsedCredentialInfoList == <<>>

\* start(): credreq.Info(conf) for every credential request of an issuance.
\* credentials are the requests of the parsed issuance request, which no
\* earlier step of the model looks at.
CheckCredentialInfo(credentials) ==
    /\ pc = "credinfo"
    /\ LET r == CredentialInfos(credentials, ParsedCredentialInfoList)
       IN  /\ session' = [session EXCEPT !.credentials = credentials,
                                         !.CredentialInfoList = r.list]
           /\ IF r.err
              THEN CallFail(SessionError("UnknownCredentialType", ""), "ended")
              ELSE pc' = "checking" /\ UNCHANGED <<err, ret>>
    /\ UNCHANGED <<qr, confVars, seenVars, appVars, net, cb, lastFailure, client>>
    /\ UNCHANGED call

\* ------------------------------------------------------------------ candidates

\* An attribute disjunction: the attribute types it names, in their order,
\* and the value it requires of some of them.
AttributeDisjunction(attributes, values) ==
    [Attributes |-> attributes, Values |-> values]

\* Matches without the comparison with the required value.
Matches_AnyValue(credentials, attr, disjunction) ==
    {c \in credentials :
        /\ c.type = CredentialTypeIdentifier(attr)
        /\ ~c.expired
        /\ Len(attr) = 4
        /\ attr[4] \in DOMAIN c.values}

\* The stored credentials an attribute of the disjunction can be disclosed
\* from: of the credential type of the attribute, not expired, and holding the
\* required value when the disjunction requires one.
Matches(credentials, attr, disjunction) ==
    {c \in credentials :
        /\ c.type = CredentialTypeIdentifier(attr)
        /\ ~c.expired
        /\ Len(attr) = 4
        /\ attr[4] \in DOMAIN c.values
        /\ attr \in DOMAIN disjunction.Values =>
              c.values[attr[4]] = disjunction.Values[attr]}

\* One reference to attr in each of the credentials matches, in the order of
\* their index.
RECURSIVE References(_, _)
References(matches, attr) ==
    IF matches = {} THEN <<>>
    ELSE LET first == CHOOSE c \in matches : \A d \in matches : c.index <= d.index
         IN  <<[CredentialHash |-> Hash(first), Type |-> attr]>>
             \o References(matches \ {first}, attr)

\* client.Candidates(disjunction): one reference for each stored credential
\* an attribute of the disjunction can be disclosed from.
RECURSIVE CandidatesFrom(_, _, _)
CandidatesFrom(credentials, disjunction, i) ==
    IF i > Len(disjunction.Attributes) THEN <<>>
    ELSE LET attr == disjunction.Attributes[i]
         IN  References(Matches(credentials, attr, disjunction), attr)
             \o CandidatesFrom(credentials, disjunction, i + 1)

Candidates(credentials, disjunction) == CandidatesFrom(credentials, disjunction, 1)

\* Candidates that takes a disjunction with nothing to disclose from for
\* one that has a reference.
Missing_None(credentials, disjunctions) == <<>>

\* client.CheckSatisfiability(disjunctions), the missing part of its result:
\* the disjunctions with no candidate, in their order.
RECURSIVE Missing(_, _)
Missing(credentials, disjunctions) ==
    IF disjunctions = <<>> THEN <<>>
    ELSE (IF Candidates(credentials, Head(disjunctions)) = <<>>
          THEN <<Head(disjunctions)>> ELSE <<>>)
         \o Missing(credentials, Tail(disjunctions))

\* client.CheckSatisfiability(disjunctions), the candidates part: the
\* candidates of each disjunction.
CandidateLists(credentials, disjunctions) ==
    [i \in 1..Len(disjunctions) |-> Candidates(credentials, disjunctions[i])]

\* start() and NewManualSession(): CheckSatisfiability, then either
\* UnsatisfiableRequest and return, or the permission request.
MaxDisjunctions == 2

StudentID == StudentCard \o <<"studentID">>

\* The disjunctions a request can hold: the student number the wallet has, and
\* one it has not.
DisjunctionInputs ==
    {AttributeDisjunction(<<StudentID>>, [a \in {StudentID} |-> value]) :
        value \in {"456", "foobarbaz"}}

\* ToDisclose(): the lists of at most MaxDisjunctions disjunctions.
DisjunctionLists ==
    UNION {[1..n -> DisjunctionInputs] : n \in 0..MaxDisjunctions}

CheckSatisfiability(disjunctions) ==
    /\ pc = "checking"
    /\ LET missing == Missing(client.credentials, disjunctions)
       IN  /\ session' = [session EXCEPT !.disjunctions = disjunctions,
                                         !.missing = missing]
           /\ IF Len(missing) > 0
              THEN /\ cb' = Bump(cb, "UnsatisfiableRequest")
                   /\ pc' = "ended"
              ELSE /\ cb' = IF IsInteractive(session)
                            THEN Bump(Bump(cb, "StatusUpdate"), "RequestPermission")
                            ELSE Bump(cb, "RequestPermission")
                   /\ pc' = "awaiting"
    /\ UNCHANGED <<qr, confVars, seenVars, err, ret, appVars, net, lastFailure, client>>
    /\ UNCHANGED call

\* ------------------------------------------------------------------ do()

\* The message do() builds for the requestor: getProof's proof list or
\* issuance commitments; a keyshare session hands over the same kinds.
Proof(s) == IF s.Action = "issuing" THEN "IssueCommitmentMessage" ELSE "ProofList"

\* do() that builds the proof whatever the handler has answered.
Do_WithoutConsent(proceed, built) ==
    /\ pc = "awaiting"
    /\ built
    /\ session' = [session EXCEPT !.choices = @ + 1, !.message = Proof(session)]
    /\ cb' = Bump(cb, "StatusUpdate")
    /\ pc' = "send"
    /\ permission' = IF proceed THEN "granted" ELSE "declined"
    /\ UNCHANGED <<qr, confVars, lastSuccess, panicked, appVars, net, lastFailure, client,
                   err, ret, call>>

\* The handler invokes the permission callback, which starts do(proceed);
\* session.choices counts the times the callback has assigned session.choice.
\* built: whether getProof (not distributed) or getBuilders (distributed)
\* succeeds.
Do(proceed, built) ==
    /\ pc = "awaiting"
    /\ LET chosen == [session EXCEPT !.choices = @ + 1]
       IN  IF ~proceed
           THEN /\ built
                /\ CallCancel
                /\ session' = chosen
                /\ UNCHANGED cb
           ELSE /\ cb' = Bump(cb, "StatusUpdate")
                /\ IF ~Distributed(session.ids)
                   THEN IF built
                        THEN /\ session' = [chosen EXCEPT !.message = Proof(session)]
                             /\ pc' = "send"
                             /\ UNCHANGED <<err, ret>>
                        ELSE /\ CallFail(SessionError("Crypto", ""), "ended")
                             /\ session' = chosen
                   ELSE /\ IF built
                           THEN pc' = "startkeyshare" /\ UNCHANGED <<err, ret>>
                           ELSE CallFail(SessionError("Crypto", ""), "startkeyshare")
                        /\ session' = chosen
    /\ permission' = IF proceed THEN "granted" ELSE "declined"
    /\ UNCHANGED <<qr, confVars, lastSuccess, panicked, appVars, net, lastFailure, client>>
    /\ UNCHANGED call

\* do(): startKeyshareSession(session, ...)
StartKeyshare ==
    /\ pc = "startkeyshare"
    /\ net' = Bump(net, "keyshare")
    /\ pc' = "keyshare"
    /\ UNCHANGED <<qr, confVars, seenVars, session, err, ret, appVars, cb, lastFailure, client>>
    /\ UNCHANGED call

\* The keyshare session reports its outcome to the session.
KeyshareDone ==
    /\ pc = "keyshare"
    /\ session' = [session EXCEPT !.message = Proof(session)]
    /\ pc' = "send"
    /\ UNCHANGED <<qr, confVars, seenVars, err, ret, appVars, net, cb, lastFailure, client>>
    /\ UNCHANGED call

KeyshareCancelled ==
    /\ pc = "keyshare"
    /\ CallCancel
    /\ UNCHANGED <<qr, confVars, seenVars, session, appVars, net, cb, lastFailure, client>>
    /\ UNCHANGED call

\* KeyshareBlocked(manager, duration): forwarded to the handler.  The
\* keyshare session that was blocked goes on to report KeyshareError.
KeyshareBlocked ==
    /\ pc = "keyshare"
    /\ cb' = Bump(cb, "KeyshareBlocked")
    /\ pc' = "blocked"
    /\ UNCHANGED <<qr, confVars, seenVars, session, err, ret, appVars, net, lastFailure, client>>
    /\ UNCHANGED call

KeyshareError ==
    /\ pc \in {"keyshare", "blocked"}
    /\ CallFail(SessionError("Keyshare", ""), "ended")
    /\ UNCHANGED <<qr, confVars, seenVars, session, appVars, net, cb, lastFailure, client>>
    /\ UNCHANGED call

\* ------------------------------------------------------------------ sendResponse()

\* json.Marshal(message) of a manual session
MarshalJSON(message) == "{\"json\":\"" \o message \o "\"}"

\* sendResponse() handing "" to Handler.Success whatever the session.
ResultString_Empty(s) == ""

\* sendResponse(): string(messageJson), which is set in a manual session only.
ResultString(s) == IF IsInteractive(s) THEN "" ELSE MarshalJSON(s.message)

\* sendResponse(): the entry handed to addLogEntry; log stays nil in a manual
\* session.
LogEntry(s) == IF IsInteractive(s) THEN s.Action ELSE "nil"

\* client.addLogEntry(entry): the entry goes to the end of the log.
addLogEntry(logs, entry) == Append(logs, entry)

\* The least index no stored credential of the type has.
RECURSIVE FreeIndex(_, _, _)
FreeIndex(credentials, type, index) ==
    IF \E c \in credentials : c.type = type /\ c.index = index
    THEN FreeIndex(credentials, type, index + 1)
    ELSE index

\* client.ConstructCredentials(response, request): the wallet gains one
\* credential for each credential request of the issuance request.
RECURSIVE ConstructCredentials(_, _)
ConstructCredentials(credentials, requests) ==
    IF requests = <<>> THEN credentials
    ELSE LET cr == Head(requests)
             type == NewCredentialTypeIdentifier(cr.CredentialTypeID)
         IN  ConstructCredentials(
                 credentials \cup {Credential(type, FreeIndex(credentials, type, 0),
                                              cr.Attributes, FALSE)},
                 Tail(requests))

\* sendResponse(): from addLogEntry to Handler.Success.
Finish ==
    /\ client' = [announceDownloaded(session, client) EXCEPT
                    !.logs = addLogEntry(@, LogEntry(session)),
                    !.credentials = IF IsInteractive(session) /\ session.Action = "issuing"
                                    THEN ConstructCredentials(@, session.credentials)
                                    ELSE @,
                    !.UpdateAttributes = IF session.Action = "issuing" THEN @ + 1 ELSE @]
    /\ session' = [session EXCEPT !.done = TRUE]
    /\ cb' = Bump(cb, "Success")
    /\ lastSuccess' = ResultString(session)
    /\ pc' = "ended"
    /\ UNCHANGED <<err, ret>>

\* sendResponse(): the POST of an interactive session, or json.Marshal of a
\* manual one.
SendResponse(marshalled) ==
    /\ pc = "send"
    /\ IF IsInteractive(session)
       THEN /\ marshalled
            /\ net' = Bump(net, "post")
            /\ pc' = "posting"
            /\ UNCHANGED <<session, err, ret, cb, client, lastSuccess>>
       ELSE /\ UNCHANGED net
            /\ IF marshalled
               THEN Finish
               ELSE /\ CallFail(SessionError("Serialization", ""), "ended")
                    /\ UNCHANGED <<session, cb, client, lastSuccess>>
    /\ UNCHANGED <<qr, confVars, panicked, permission, appVars, lastFailure>>
    /\ UNCHANGED call

\* The strings a requestor answers the POST of the proofs with.
ProofResponses == {"VALID", "INVALID", "EXPIRED"}

\* sendResponse(): if response != "VALID"
Rejects(response) == response # "VALID"

\* sendResponse(): the POST returns, with an error or with the requestor's
\* answer: a string for the proofs of a disclosure or signature session, the
\* signatures for the commitments of an issuance session.
PostReturns(outcome, response) ==
    /\ pc = "posting"
    /\ CASE outcome = "error" ->
              /\ response = ""
              /\ CallFail(SessionError("Transport", ""), "ended")
              /\ UNCHANGED <<session, cb, client>>
         [] outcome = "answered" ->
              /\ session.Action \in {"signing", "disclosing"}
              /\ response \in ProofResponses
              /\ IF Rejects(response)
                 THEN /\ CallFail(SessionError("Rejected", response), "ended")
                      /\ UNCHANGED <<session, cb, client>>
                 ELSE Finish
         [] outcome = "badsignatures" ->
              /\ session.Action = "issuing"
              /\ response = ""
              /\ CallFail(SessionError("Crypto", ""), "ended")
              /\ UNCHANGED <<session, cb, client>>
         [] outcome = "ok" ->
              /\ session.Action = "issuing"
              /\ response = ""
              /\ Finish
    /\ net' = [net EXCEPT !.response = response]
    /\ cb'.Success = cb.Success => UNCHANGED lastSuccess
    /\ UNCHANGED <<qr, confVars, panicked, permission, appVars, lastFailure>>
    /\ UNCHANGED call

\* ------------------------------------------------------------------ managerSession()

\* The scheme manager descriptions the download can yield: a scheme manager
\* the Configuration does not hold yet, distributed or not.
ManagerDescriptions == {[name |-> "missing", Distributed |-> d] : d \in BOOLEAN}

\* Configuration.InstallSchemeManager(manager): the Configuration holds the
\* scheme manager afterwards.
InstallSchemeManager(conf, manager) ==
    [id \in DOMAIN conf \cup {manager.name} |->
        IF id = manager.name
        THEN [Valid |-> TRUE, Status |-> "Valid", Distributed |-> manager.Distributed]
        ELSE conf[id]]

\* The identifier set with the issuers of the scheme manager added.
ManagerIdentifiers_WithIssuers(manager) ==
    IdentifierSet({manager.name}, {manager.name \o ".issuer"}, {})

\* The identifier set managerSession hands to UpdateConfiguration
ManagerIdentifiers(manager) == IdentifierSet({manager.name}, {}, {})

\* managerSession(): irma.DownloadSchemeManager(session.ServerURL), then
\* Handler.Failure or RequestSchemeManagerPermission.
ManagerSession(ok, manager) ==
    /\ pc = "managerSession"
    /\ IF ~ok
       THEN /\ manager = NoManager
            /\ cb' = Bump(cb, "Failure")
            /\ lastFailure' = SessionError("ConfigurationDownload", "")
            /\ pc' = "ended"
            /\ UNCHANGED session
       ELSE /\ manager \in ManagerDescriptions
            /\ session' = [session EXCEPT !.manager = manager]
            /\ cb' = Bump(cb, "RequestSchemeManagerPermission")
            /\ pc' = "managerAwaiting"
            /\ UNCHANGED lastFailure
    /\ UNCHANGED <<qr, confVars, seenVars, err, ret, appVars, net, client>>
    /\ UNCHANGED call

\* The callback installing the scheme manager although the user declined.
DeclinedConfiguration_Installed(conf, manager) == InstallSchemeManager(conf, manager)

\* if !proceed { Handler.Cancelled; return }: nothing is installed.
DeclinedConfiguration(conf, manager) == conf

\* The handler invokes the callback of RequestSchemeManagerPermission: up to
\* the call of client.handler.UpdateConfiguration.
ManagerPermission(proceed, installed) ==
    /\ pc = "managerAwaiting"
    /\ IF ~proceed
       THEN /\ installed
            /\ schemeManagers' = DeclinedConfiguration(schemeManagers, session.manager)
            /\ cb' = Bump(cb, "Cancelled")
            /\ pc' = "ended"
            /\ UNCHANGED <<lastFailure, client>>
       ELSE IF ~installed
       THEN /\ cb' = Bump(cb, "Failure")
            /\ lastFailure' = SessionError("ConfigurationDownload", "")
            /\ pc' = "ended"
            /\ UNCHANGED <<schemeManagers, client>>
       ELSE /\ schemeManagers' = InstallSchemeManager(schemeManagers, session.manager)
            /\ client' = [client EXCEPT !.UpdateConfiguration = @ + 1,
                                         !.announced = ManagerIdentifiers(session.manager)]
            /\ pc' = "managerInstalled"
            /\ UNCHANGED <<cb, lastFailure>>
    /\ permission' = IF proceed THEN "granted" ELSE "declined"
    /\ UNCHANGED <<qr, keyshareServers, lastSuccess, panicked, session, err, ret, appVars, net>>
    /\ UNCHANGED call

\* The callback's last statement: session.Handler.Success(session.Action, "")
ManagerSuccess ==
    /\ pc = "managerInstalled"
    /\ cb' = Bump(cb, "Success")
    /\ lastSuccess' = ""
    /\ pc' = "ended"
    /\ UNCHANGED <<qr, confVars, panicked, permission, session, err, ret, appVars, net,
                   lastFailure, client>>
    /\ UNCHANGED call

\* ------------------------------------------------------------------ panics

\* The steps at which the model lets the running code panic:
\* CheckSatisfiability, in start() or in NewManualSession(); sendResponse()
\* called by do(); DownloadSchemeManager in managerSession(); and
\* InstallSchemeManager in the callback of RequestSchemeManagerPermission.
PanicPoints == {"checking", "send", "managerSession", "managerAwaiting"}

\* Whether a panic at step at of session s meets a deferred recover():
\* start() and do() defer session.panicFailure() and managerSession() defers
\* its own recover; NewManualSession(), in which the setup of a manual
\* session runs, defers nothing; the callback managerSession() hands to the
\* handler runs under managerSession()'s recover only when the handler
\* invokes it before RequestSchemeManagerPermission returns (synchronous).
Recovers(s, at, synchronous) ==
    \/ at = "checking" /\ IsInteractive(s)
    \/ at = "send"
    \/ at = "managerSession"
    \/ at = "managerAwaiting" /\ synchronous

\* The code of the current step panics with e.  A recovered panic goes to
\* panicFailure (managerSession's recover does the same); one that is not
\* recovered ends the process.
TaskPanics(e, synchronous) ==
    /\ pc \in PanicPoints
    /\ pc = "send" => ~Distributed(session.ids)
    /\ pc # "managerAwaiting" => synchronous
    /\ IF Recovers(session, pc, synchronous)
       THEN PanicFailure(e)
       ELSE /\ panicked' = e
            /\ pc' = "crashed"
            /\ UNCHANGED <<cb, lastFailure>>
    /\ UNCHANGED <<qr, confVars, lastSuccess, permission, session, err, ret, appVars, net,
                   client>>
    /\ UNCHANGED call

\* ------------------------------------------------------------------ specification

VersionRanges == {<<FormatVersion(2, 1), FormatVersion(2, 2)>>,
                  <<FormatVersion(2, 3), FormatVersion(2, 4)>>}

\* The QR of a scheme manager: its URL and no protocol versions.
ManagerQr ==
    [Type |-> "schememanager", URL |-> "https://schememanager/missing",
     ProtocolVersion |-> <<>>, ProtocolMaxVersion |-> <<>>]

QrInputs ==
    {[Type |-> t, URL |-> QrURL, ProtocolVersion |-> r[1], ProtocolMaxVersion |-> r[2]] :
        t \in SessionActions \cup {"unknown"}, r \in VersionRanges}
    \cup {ManagerQr}

Next ==
    \/ \E q \in QrInputs : NewSession(q)
    \/ \E jsonOK \in BOOLEAN, ids \in SUBSET ManagerNames : NewManualSession(jsonOK, ids)
    \/ Start
    \/ \E outcome \in {"error", "badjwt", "nilrequest", "ok"}, ids \in SUBSET ManagerNames :
          GetReturns(outcome, ids)
    \/ CheckConfiguration
    \/ \E ok \in BOOLEAN, d \in {"nil", "empty", "nonempty"} : DownloadReturns(ok, d)
    \/ \E credentials \in CredentialLists : CheckCredentialInfo(credentials)
    \/ \E disjunctions \in DisjunctionLists : CheckSatisfiability(disjunctions)
    \/ \E proceed \in BOOLEAN, built \in BOOLEAN : Do(proceed, built)
    \/ StartKeyshare
    \/ KeyshareDone
    \/ KeyshareCancelled
    \/ KeyshareBlocked
    \/ KeyshareError
    \/ \E marshalled \in BOOLEAN : SendResponse(marshalled)
    \/ \E outcome \in {"error", "answered", "badsignatures", "ok"},
          response \in ProofResponses \cup {""} : PostReturns(outcome, response)
    \/ \E ok \in BOOLEAN, manager \in ManagerDescriptions \cup {NoManager} :
          ManagerSession(ok, manager)
    \/ \E proceed \in BOOLEAN, installed \in BOOLEAN : ManagerPermission(proceed, installed)
    \/ ManagerSuccess
    \/ \E e \in PanicValues, synchronous \in BOOLEAN : TaskPanics(e, synchronous)
    \/ FailCheck
    \/ FailDelete
    \/ CancelCheck
    \/ CancelDelete
    \/ DismissCheck
    \/ DismissDelete

Spec == Init /\ [][Next]_vars

\* ------------------------------------------------------------------ the permission callback, again

MaxCallbacks == 2

\* The handler keeps the permission callback it was given and invokes it once
\* more, when the do() of the invocation before has run to its end: the
\* callback assigns session.choice and starts another do(proceed), which is
\* the step Do.
InvokeAgain ==
    /\ pc = "ended"
    /\ session.choices \in 1..(MaxCallbacks - 1)
    /\ pc' = "awaiting"
    /\ UNCHANGED <<qr, confVars, seenVars, session, err, ret, appVars, net, cb, lastFailure,
                   client>>
    /\ UNCHANGED call

\* The QRs of the three kinds of session with a requestor.
CallbackQrs ==
    {[Type |-> t, URL |-> QrURL, ProtocolVersion |-> FormatVersion(2, 1),
      ProtocolMaxVersion |-> FormatVersion(2, 2)] : t \in SessionActions}

\* Sessions in which nothing fails before the permission request.
NextCallbacks ==
    \/ \E q \in CallbackQrs : NewSession(q)
    \/ Start
    \/ \E ids \in {{}, {"irma-demo"}, {"test"}} : GetReturns("ok", ids)
    \/ CheckConfiguration
    \/ DownloadReturns(TRUE, "empty")
    \/ CheckCredentialInfo(<<>>)
    \/ CheckSatisfiability(<<>>)
    \/ \E proceed \in BOOLEAN : Do(proceed, TRUE)
    \/ InvokeAgain
    \/ StartKeyshare
    \/ KeyshareDone
    \/ SendResponse(TRUE)
    \/ \E outcome \in {"error", "answered", "badsignatures", "ok"},
          response \in ProofResponses \cup {""} : PostReturns(outcome, response)
    \/ FailCheck
    \/ FailDelete
    \/ CancelCheck
    \/ CancelDelete

SpecCallbacks == Init /\ [][NextCallbacks]_vars

\* ------------------------------------------------------------------ the wallet

MaxInstances == 2

\* The credentials a wallet can hold: student cards with one of two student
\* numbers, expired or not, and the MijnIRMA login.
CredentialInputs ==
    {Credential(StudentCard, index,
                [university |-> "Radboud", studentCardNumber |-> "0812345673",
                 studentID |-> studentID, level |-> "42"], expired) :
        index \in 0..(MaxInstances - 1), studentID \in {"456", "789"}, expired \in BOOLEAN}
    \cup TestStorage

\* The wallets: no two credentials at the same place, no two with the same
\* attribute list.
Wallets ==
    {w \in SUBSET CredentialInputs :
        \A c, d \in w : c # d => Hash(c) # Hash(d) /\ <<c.type, c.index>> # <<d.type, d.index>>}

Email == MijnIrma \o <<"email">>

\* The disjunctions asked of a wallet: those of TestCandidates, and one over
\* two credential types.
WalletDisjunctions ==
    DisjunctionInputs
    \cup {AttributeDisjunction(<<StudentID>>, <<>>),
          AttributeDisjunction(<<Email, StudentID>>, [a \in {StudentID} |-> "789"])}

InitWallet ==
    /\ \E w \in Wallets : InitWith(w)
    /\ schemeManagers = InitConfiguration("InvalidSignature")
    /\ keyshareServers = {}

\* A call of a method of the client, with what it was given and what it
\* returned.
Call(op, id, index, hash, disjunction, result) ==
    [op |-> op, id |-> id, index |-> index, hash |-> hash,
     disjunction |-> disjunction, result |-> result]

sessionVars == <<qr, confVars, seenVars, session, pc, err, ret, appVars, net, cb, lastFailure>>

\* client.Candidates(disjunction)
CallCandidates(disjunction) ==
    /\ call' = Call("Candidates", <<>>, 0, <<>>, disjunction,
                    Candidates(client.credentials, disjunction))
    /\ UNCHANGED <<sessionVars, client>>

\* client.credential(id, index)
CallCredential(id, index) ==
    /\ call' = Call("credential", id, index, <<>>, <<>>,
                    credential(client.credentials, id, index))
    /\ UNCHANGED <<sessionVars, client>>

\* client.RemoveCredential(id, index); the hash of the credential at
\* (id, index) before the call is kept with the call.
CallRemoveCredential(id, index) ==
    /\ call' = Call("RemoveCredential", id, index,
                    Hash(credential(client.credentials, id, index)), <<>>, <<>>)
    /\ client' = [client EXCEPT !.credentials = RemoveCredential(@, id, index)]
    /\ UNCHANGED sessionVars

\* client.RemoveCredentialByHash(cred.AttributeList().Hash()) of a credential
\* cred that the wallet holds or held.
CallRemoveCredentialByHash(cred) ==
    /\ LET found == IF \E c \in client.credentials : Hash(c) = Hash(cred)
                    THEN CHOOSE c \in client.credentials : Hash(c) = Hash(cred)
                    ELSE NoCredential
       IN  call' = Call("RemoveCredentialByHash", found.type, found.index, Hash(cred),
                        <<>>, <<>>)
    /\ client' = [client EXCEPT !.credentials = RemoveCredentialByHash(@, Hash(cred))]
    /\ UNCHANGED sessionVars

NextWallet ==
    \/ \E disjunction \in WalletDisjunctions : CallCandidates(disjunction)
    \/ \E id \in KnownCredentialTypes, index \in 0..(MaxInstances - 1) : CallCredential(id, index)
    \/ \E id \in KnownCredentialTypes, index \in 0..(MaxInstances - 1) :
          CallRemoveCredential(id, index)
    \/ \E cred \in CredentialInputs : CallRemoveCredentialByHash(cred)

SpecWallet == InitWallet /\ [][NextWallet]_vars

\* ------------------------------------------------------------------ ParseFolder()

\* ParseFolder that forgets the scheme managers it could not parse or verify.
ParseFolder_Dropped(conf, outcomes) ==
    [SchemeManagers |-> [id \in {m \in DOMAIN conf : outcomes[m] = "Valid"} |->
                            [conf[id] EXCEPT !.Valid = TRUE, !.Status = "Valid"]],
     DisabledSchemeManagers |-> {id \in DOMAIN conf : outcomes[id] # "Valid"},
     err |-> IF \E id \in DOMAIN conf : outcomes[id] # "Valid"
             THEN "SchemeManagerError" ELSE ""]

\* Configuration.ParseFolder(): every scheme manager of the folder is parsed
\* and verified again, with the outcome outcomes gives for it.  One that fails
\* keeps its entry, with the status of the failure, and is put among the
\* disabled scheme managers; the call then returns a SchemeManagerError.
ParseFolder(conf, outcomes) ==
    [SchemeManagers |-> [id \in DOMAIN conf |->
                            [conf[id] EXCEPT !.Valid = (outcomes[id] = "Valid"),
                                             !.Status = outcomes[id]]],
     DisabledSchemeManagers |-> {id \in DOMAIN conf : outcomes[id] # "Valid"},
     err |-> IF \E id \in DOMAIN conf : outcomes[id] # "Valid"
             THEN "SchemeManagerError" ELSE ""]

\* client.Configuration.ParseFolder(), on a folder in which the files of the
\* scheme managers are in the state outcomes tells.
CallParseFolder(outcomes) ==
    /\ LET r == ParseFolder(schemeManagers, outcomes)
       IN  /\ schemeManagers' = r.SchemeManagers
           /\ call' = [op |-> "ParseFolder", outcomes |-> outcomes,
                       DisabledSchemeManagers |-> r.DisabledSchemeManagers, err |-> r.err]
    /\ UNCHANGED <<qr, keyshareServers, seenVars, session, pc, err, ret, appVars, net, cb,
                   lastFailure, client>>

NextFolder ==
    \E outcomes \in [DOMAIN schemeManagers -> InvalidStatuses \cup {"Valid"}] :
        CallParseFolder(outcomes)

SpecFolder == Init /\ [][NextFolder]_vars

\* ------------------------------------------------------------------ GetNonce()

\* The length in bytes of a digest (sha256.Size in the program).
HashLen == 2

\* A *big.Int is nil or points to a number.
Nil == <<>>

NewInt(n) == <<n>>

RECURSIVE Power(_, _)
Power(b, e) == IF e = 0 THEN 1 ELSE b * Power(b, e - 1)

\* The state of the digest after the bytes acc stands for and the bytes of
\* bytes from i on.
RECURSIVE Absorb(_, _, _)
Absorb(acc, bytes, i) ==
    IF i > Len(bytes) THEN acc
    ELSE Absorb((acc * 131 + bytes[i] + 1) % Power(256, HashLen), bytes, i + 1)

\* sha256.Sum256(bytes): a digest of HashLen bytes that depends on every byte
\* and on their order.
Sum256(bytes) ==
    LET acc == Absorb(7, bytes, 1)
    IN  [i \in 1..HashLen |-> (acc \div Power(256, HashLen - i)) % 256]

\* new(big.Int).SetBytes(bytes): bytes read as a big-endian unsigned integer.
RECURSIVE SetBytes(_)
SetBytes(bytes) ==
    IF bytes = <<>> THEN 0
    ELSE SetBytes(SubSeq(bytes, 1, Len(bytes) - 1)) * 256 + bytes[Len(bytes)]

\* big.Int.Bytes(): the big-endian bytes of n without leading zero bytes.
RECURSIVE Bytes(_)
Bytes(n) == IF n = 0 THEN <<>> ELSE Append(Bytes(n \div 256), n % 256)

\* asn1: the length octets of a value of n bytes.
LengthOctets(n) == IF n < 128 THEN <<n>> ELSE <<129, n>>

\* asn1.Marshal of a *big.Int that is not negative: tag INTEGER, the length,
\* and the bytes of the number, with a zero byte in front when there is no
\* byte or when the first byte has its high bit set.
MarshalBigInt(n) ==
    LET bytes == Bytes(n)
        content == IF bytes = <<>> \/ bytes[1] >= 128 THEN <<0>> \o bytes ELSE bytes
    IN  <<2>> \o LengthOctets(Len(content)) \o content

\* asn1.Marshal([]interface{}{a, b, c}) of three *big.Int: a SEQUENCE of the
\* three INTEGERs, or an error and no bytes when one of them is nil.
Marshal(values) ==
    IF \E i \in 1..Len(values) : values[i] = Nil
    THEN [bytes |-> <<>>, err |-> "asn1: structure error: empty integer"]
    ELSE LET content == MarshalBigInt(values[1][1]) \o MarshalBigInt(values[2][1])
                        \o MarshalBigInt(values[3][1])
         IN  [bytes |-> <<48>> \o LengthOctets(Len(content)) \o content, err |-> ""]

\* A SignatureRequest, of which GetNonce reads Nonce and Message; Message is
\* kept as the bytes of the string.
SignatureRequest(nonce, message) == [Nonce |-> nonce, Message |-> message]

\* SignatureRequest.GetNonce(): the number it returns, and the error it has
\* printed to the log if asn1.Marshal gave one.
GetNonce(sr) ==
    LET hashbytes == Sum256(sr.Message)
        hashint == NewInt(SetBytes(hashbytes))
        asn1 == Marshal(<<NewInt(2), sr.Nonce, hashint>>)
        asn1hash == Sum256(asn1.bytes)
    IN  [nonce |-> NewInt(SetBytes(asn1hash)), logged |-> asn1.err]

\* The nonces a request can carry: none (the JSON has no nonce), and numbers
\* on both sides of the places where the encoding of an INTEGER changes.
NonceInputs ==
    {Nil} \cup {NewInt(n) : n \in {0, 1, 127, 128, 255, 256, 32767, 32768, 65535, 65536}}

\* The messages to sign: no byte, "a", "ab", "abc", "ba", "hallo".
MessageInputs ==
    {<<>>, <<97>>, <<97, 98>>, <<97, 98, 99>>, <<98, 97>>, <<104, 97, 108, 108, 111>>}

\* json.Unmarshal into a SignatureRequest, as NewManualSession does.
NewSignatureRequest(nonce, message) ==
    /\ call.op = ""
    /\ call' = [op |-> "SignatureRequest", request |-> SignatureRequest(nonce, message),
                result |-> [nonce |-> Nil, logged |-> ""]]
    /\ UNCHANGED <<sessionVars, client>>

\* SessionRequest.SetNonce(nonce)
CallSetNonce(nonce) ==
    /\ call.op \in {"SignatureRequest", "SetNonce", "GetNonce"}
    /\ call' = [op |-> "SetNonce",
                request |-> [call.request EXCEPT !.Nonce = nonce],
                result |-> [nonce |-> Nil, logged |-> ""]]
    /\ UNCHANGED <<sessionVars, client>>

\* sr.GetNonce()
CallGetNonce ==
    /\ call.op \in {"SignatureRequest", "SetNonce", "GetNonce"}
    /\ call' = [op |-> "GetNonce", request |-> call.request,
                result |-> GetNonce(call.request)]
    /\ UNCHANGED <<sessionVars, client>>

NextNonce ==
    \/ \E nonce \in NonceInputs, message \in MessageInputs : NewSignatureRequest(nonce, message)
    \/ \E nonce \in NonceInputs : CallSetNonce(nonce)
    \/ CallGetNonce

SpecNonce == Init /\ [][NextNonce]_vars

\* ------------------------------------------------------------------ IssuanceRequest.Identifiers()

MaxCalls == 2

\* An IssuanceRequest: its credential requests (of each the credential type
\* and the key counter), the disjunctions of its Disclose, and Ids, which is
\* nil until Identifiers() has filled it.
IssuanceRequest(credentials, disclose) ==
    [Credentials |-> credentials, Disclose |-> disclose, Ids |-> Nil]

\* The credential type Identifiers() takes an attribute of a disjunction to
\* belong to.
AttributeCredentialType(attr) ==
    IF ~IsCredential(attr)
    THEN CredentialTypeIdentifier(attr)
    ELSE NewCredentialTypeIdentifier(String(attr))

\* The key counters of the credential requests of the issuer from i on, in
\* their order.
RECURSIVE KeyCounters(_, _, _)
KeyCounters(credentials, issuer, i) ==
    IF i > Len(credentials) THEN <<>>
    ELSE (IF IssuerIdentifier(credentials[i].CredentialTypeID) = issuer
          THEN <<credentials[i].KeyCounter>> ELSE <<>>)
         \o KeyCounters(credentials, issuer, i + 1)

\* Identifiers() that looks at the credential requests only.
IssuanceIdentifiers_CredentialsOnly(ir) ==
    LET issued == {ir.Credentials[i].CredentialTypeID : i \in 1..Len(ir.Credentials)}
    IN  [SchemeManagers |-> {SchemeManagerIdentifier(IssuerIdentifier(c)) : c \in issued},
         Issuers |-> {IssuerIdentifier(c) : c \in issued},
         CredentialTypes |-> issued,
         PublicKeys |-> [issuer \in {IssuerIdentifier(c) : c \in issued} |->
                            KeyCounters(ir.Credentials, issuer, 1)]]

\* The identifier set Identifiers() builds when ir.Ids is nil: the two loops.
IssuanceIdentifiers(ir) ==
    LET issued == {ir.Credentials[i].CredentialTypeID : i \in 1..Len(ir.Credentials)}
        disclosed == UNION {{AttributeCredentialType(ir.Disclose[i].Attributes[j]) :
                                j \in 1..Len(ir.Disclose[i].Attributes)} :
                            i \in 1..Len(ir.Disclose)}
        all == issued \cup disclosed
    IN  [SchemeManagers |-> {SchemeManagerIdentifier(IssuerIdentifier(c)) : c \in all},
         Issuers |-> {IssuerIdentifier(c) : c \in all},
         CredentialTypes |-> all,
         PublicKeys |-> [issuer \in {IssuerIdentifier(c) : c \in issued} |->
                            KeyCounters(ir.Credentials, issuer, 1)]]

\* IssuanceRequest.Identifiers(): the request afterwards and the set returned.
Identifiers(ir) ==
    IF ir.Ids = Nil
    THEN LET ids == IssuanceIdentifiers(ir)
         IN  [request |-> [ir EXCEPT !.Ids = <<ids>>], result |-> ids]
    ELSE [request |-> ir, result |-> ir.Ids[1]]

\* The credential requests of an issuance request: a credential type and the
\* key counter start() has stored for it.
IssuedInputs ==
    {[CredentialTypeID |-> StudentCard, KeyCounter |-> 0],
     [CredentialTypeID |-> MijnOverheidRoot, KeyCounter |-> 1],
     [CredentialTypeID |-> MijnIrma, KeyCounter |-> 0]}

\* The disjunctions of Disclose: an attribute, two attributes of two scheme
\* managers, and a credential type named as a whole.
DiscloseInputs ==
    {AttributeDisjunction(<<StudentID>>, <<>>),
     AttributeDisjunction(<<Email, StudentID>>, <<>>),
     AttributeDisjunction(<<MijnOverheidRoot>>, <<>>)}

IssuanceRequests ==
    {IssuanceRequest(credentials, disclose) :
        credentials \in UNION {[1..n -> IssuedInputs] : n \in 0..MaxCredentials},
        disclose \in UNION {[1..n -> DiscloseInputs] : n \in 0..MaxDisjunctions}}

\* irma.ParseRequestorJwt hands an issuance request to start().
NewIssuanceRequest(ir) ==
    /\ call.op = ""
    /\ call' = [op |-> "IssuanceRequest", request |-> ir, result |-> <<>>, calls |-> 0]
    /\ UNCHANGED <<sessionVars, client>>

\* ir.Identifiers()
CallIdentifiers ==
    /\ call.op \in {"IssuanceRequest", "Identifiers"}
    /\ call.calls < MaxCalls
    /\ LET r == Identifiers(call.request)
       IN  call' = [op |-> "Identifiers", request |-> r.request, result |-> <<r.result>>,
                    calls |-> call.calls + 1]
    /\ UNCHANGED <<sessionVars, client>>

NextIdentifiers ==
    \/ \E ir \in IssuanceRequests : NewIssuanceRequest(ir)
    \/ CallIdentifiers

SpecIdentifiers == Init /\ [][NextIdentifiers]_vars

\* ------------------------------------------------------------------ the key counters of an issuance session

MaxKeys == 2

\* SessionInfo.UnmarshalJSON: si.Keys after the items of "keys" from i on
\* have been stored in keys; NewIssuerIdentifier gives the identifier whose
\* dotted string is that of the item, and a later item for an issuer
\* replaces an earlier.
RECURSIVE UnmarshalKeys(_, _, _)
UnmarshalKeys(items, keys, i) ==
    IF i > Len(items) THEN keys
    ELSE LET issuers == {IssuerIdentifier(c) : c \in KnownCredentialTypes}
             idstr == items[i][1]
             id == IF \E k \in issuers : String(k) = idstr
                   THEN CHOOSE k \in issuers : String(k) = idstr
                   ELSE <<idstr>>
         IN  UnmarshalKeys(items,
                           [k \in DOMAIN keys \cup {id} |->
                               IF k = id THEN items[i][2] ELSE keys[k]],
                           i + 1)

\* start(): credreq.KeyCounter = session.info.Keys[issuer of credreq], for
\* every credential request; the lookup gives the zero value of int when the
\* map has no entry for the issuer.
StoreKeyCounters(credentials, keys) ==
    [i \in 1..Len(credentials) |->
        LET issuer == IssuerIdentifier(credentials[i].CredentialTypeID)
        IN  [credentials[i] EXCEPT
                !.KeyCounter = IF issuer \in DOMAIN keys THEN keys[issuer] ELSE 0]]

\* start(): the GET has returned the SessionInfo with the items of "keys",
\* and the JWT in it holds an issuance request with these credentials.
GetSessionInfo(items, credentials) ==
    /\ call.op = ""
    /\ call' = [op |-> "SessionInfo", items |-> items, jwt |-> credentials,
                Keys |-> UnmarshalKeys(items, <<>>, 1),
                request |-> IssuanceRequest(credentials, <<>>), result |-> <<>>]
    /\ UNCHANGED <<sessionVars, client>>

\* start(): the loop that stores the key counters.
CallStoreKeyCounters ==
    /\ call.op = "SessionInfo"
    /\ call' = [call EXCEPT !.op = "KeyCounters",
                            !.request.Credentials = StoreKeyCounters(@, call.Keys)]
    /\ UNCHANGED <<sessionVars, client>>

\* checkAndUpateConfiguration(): Configuration.Download is handed
\* session.irmaSession.Identifiers().
CallDownload ==
    /\ call.op = "KeyCounters"
    /\ LET r == Identifiers(call.request)
       IN  call' = [call EXCEPT !.op = "Download", !.request = r.request,
                                !.result = <<r.result>>]
    /\ UNCHANGED <<sessionVars, client>>

\* The items of "keys" are the dotted string of an issuer and a counter; the
\* credential requests of the JWT each have the keyCounter their JSON
\* carries.
NextKeys ==
    \/ LET KeyItems == {<<"irma-demo.RU", 1>>, <<"irma-demo.RU", 2>>,
                        <<"irma-demo.MijnOverheid", 3>>}
           Requested == {[CredentialTypeID |-> type, KeyCounter |-> counter] :
                            type \in {StudentCard, MijnOverheidRoot}, counter \in {0, 7}}
       IN  \E items \in UNION {[1..n -> KeyItems] : n \in 0..MaxKeys},
              credentials \in UNION {[1..n -> Requested] : n \in 0..MaxCredentials} :
              GetSessionInfo(items, credentials)
    \/ CallStoreKeyCounters
    \/ CallDownload

SpecKeys == Init /\ [][NextKeys]_vars

\* ------------------------------------------------------------------ claims

\* The session has reported one of its final outcomes to the handler.
Reported ==
    cb.Success + cb.Failure + cb.Cancelled + cb.UnsatisfiableRequest > 0

\* C1: whatever the order or interleaving of fail(), cancel(), Dismiss() and
\* sendResponse(), an interactive session sends at most one DELETE to the
\* requestor.
C1_AtMostOneDelete ==
    IsInteractive(session) => net.delete <= 1

\* C2: once Handler.Failure has been invoked, the session task invokes no
\* further handler callback and starts no further protocol step (keyshare
\* session, POST), on every path through start(), do() and sendResponse().
\* Stated for sessions the application does not dismiss.
C2_FailureIsTerminal ==
    [][(cb.Failure > 0 /\ nDismiss = 0 /\ dpc = "idle" /\ dpc' = "idle" /\ nDismiss' = 0)
          => (cb' = cb /\ net'.post = net.post /\ net'.keyshare = net.keyshare)]_vars

\* C3: after a Dismiss() has invoked Handler.Cancelled, no Success, no Failure
\* and no second Cancelled is invoked, also when a request was in flight at
\* the Dismiss() and returns afterwards.  Stated for a session task that is
\* not itself inside fail() or cancel(), and for failures other than a
\* recovered panic.
C3_NothingAfterDismissCancelled ==
    [][(dismissCancelled /\ pc \notin {"failing", "cancelling"})
          => (/\ cb'.Success = cb.Success
              /\ (cb'.Failure = cb.Failure \/ lastFailure'.ErrorType = "ErrorPanic")
              /\ cb'.Cancelled = cb.Cancelled)]_vars

\* A step of the application's Dismiss() call.
DismissStep == dpc' # dpc \/ nDismiss' # nDismiss

\* The non-terminal states of an interactive session: fetching the request,
\* resolving the configuration, checking, awaiting consent, keyshare, sending.
NonTerminal ==
    /\ IsInteractive(session)
    /\ ~Reported
    /\ pc \in {"start", "fetching", "resolving", "downloading", "credinfo", "checking",
               "awaiting", "startkeyshare", "keyshare", "send", "posting"}

C5_DismissAfterOutcome ==
    [][(/\ dpc = "idle"
        /\ DismissStep
        /\ cb.Success + cb.Failure + cb.UnsatisfiableRequest > 0
        /\ lastFailure.ErrorType # "ErrorPanic")
          => (dpc' = "idle" /\ cb' = cb /\ net' = net)]_vars

\* C6: on a session on which a Dismiss() has returned, a further Dismiss()
\* sends no DELETE, invokes no Handler callback and no UpdateConfiguration,
\* and leaves the session unchanged.
C6_DismissIdempotent ==
    [][(nDismiss >= 1 /\ DismissStep)
          => (/\ dpc = "idle" /\ dpc' = "idle"
              /\ UNCHANGED <<net, cb, client, session, lastFailure, pc>>)]_vars

C6_Witness ==
    /\ nDismiss >= 2
    /\ net.delete = 1
    /\ cb.Cancelled = 1

\* C7: an interactive session that has ended Cancelled, Failed or
\* Unsatisfiable has sent a DELETE to the requestor.  Stated for failures
\* other than a recovered panic.
C7_DeleteOnEveryEnd ==
    (/\ IsInteractive(session)
     /\ pc = "ended"
     /\ cb.Cancelled + cb.Failure + cb.UnsatisfiableRequest > 0
     /\ lastFailure.ErrorType # "ErrorPanic")
        => net.delete >= 1

\* ------------------------------------------------------------------ version negotiation, checked on its own

\* Every server range "<major>.<minor>" .. "<major>.<minor>" within the bounds.
VersionQrs ==
    {[Type |-> "disclosing", URL |-> QrURL,
      ProtocolVersion |-> FormatVersion(a, b), ProtocolMaxVersion |-> FormatVersion(c, d)] :
        a \in 1..MaxVersionMajor, b \in 0..MaxVersionMinor,
        c \in 1..MaxVersionMajor, d \in 0..MaxVersionMinor}

NextVersion == \E q \in VersionQrs : NewSession(q)

SpecVersion == Init /\ [][NextVersion]_vars

\* The number a decimal string denotes.
RECURSIVE DecimalValue(_)
DecimalValue(s) ==
    IF s = <<>> THEN 0
    ELSE 10 * DecimalValue(SubSeq(s, 1, Len(s) - 1)) + DigitValue(s[Len(s)])

\* The (major, minor) a version string "<major>.<minor>" denotes.
VersionOf(s) ==
    LET dot == CHOOSE i \in 1..Len(s) : s[i] = "."
    IN  <<DecimalValue(SubSeq(s, 1, dot - 1)), DecimalValue(SubSeq(s, dot + 1, Len(s)))>>

\* v <= w in the lexicographic order of (major, minor)
VersionLeq(v, w) == v[1] < w[1] \/ (v[1] = w[1] /\ v[2] <= w[2])

\* The supported versions, majors descending and minors descending.
SupportedInOrder == <<<<2, 2>>, <<2, 1>>>>

\* C8: calcVersion returns the first supported version v, majors and minors
\* descending, with min <= v <= max in the lexicographic order of (major,
\* minor), and NewSession fails with ProtocolVersionNotSupported exactly when
\* no supported version lies in the range.
C8_Negotiation ==
    session.started =>
        LET lo   == VersionOf(qr.ProtocolVersion)
            hi   == VersionOf(qr.ProtocolMaxVersion)
            fits == {i \in 1..Len(SupportedInOrder) :
                        /\ VersionLeq(lo, SupportedInOrder[i])
                        /\ VersionLeq(SupportedInOrder[i], hi)}
        IN  IF fits = {}
            THEN /\ cb.Failure = 1
                 /\ lastFailure.ErrorType = "ProtocolVersionNotSupported"
            ELSE LET first == CHOOSE i \in fits : \A j \in fits : i <= j
                 IN  /\ cb.Failure = 0
                     /\ session.Version = FormatVersion(SupportedInOrder[first][1],
                                                        SupportedInOrder[first][2])

\* ------------------------------------------------------------------ scheme manager validation

\* The scheme managers of the request that are absent from the Configuration.
AbsentManagers == {id \in session.ids : id \notin DOMAIN schemeManagers}

\* The scheme managers of the request that are present with a status other than Valid.
InvalidManagers ==
    {id \in session.ids : id \in DOMAIN schemeManagers /\ schemeManagers[id].Status # "Valid"}

\* No descriptor download, no candidate computation, no consent dialog.
StoppedAtValidation ==
    /\ net.download = 0
    /\ cb.UnsatisfiableRequest = 0
    /\ cb.RequestPermission = 0
    /\ cb.Success = 0

\* C9 as claimed: a session whose request names an absent scheme manager ends
\* with Failure(UnknownSchemeManager, Info = that manager), before any
\* download, candidate computation or consent dialog.  Stated for sessions
\* the application does not dismiss.
C9_UnknownAsClaimed ==
    (AbsentManagers # {} /\ pc = "ended" /\ nDismiss = 0 /\ dpc = "idle")
        => (/\ cb.Failure = 1
            /\ lastFailure.ErrorType = "UnknownSchemeManager"
            /\ lastFailure.Info \in AbsentManagers
            /\ StoppedAtValidation)

\* C9, amended: such a session stops before any download, candidate
\* computation or consent dialog; unless a Dismiss() has cancelled it, it ends
\* with exactly one Failure, which is UnknownSchemeManager with Info an absent
\* manager's name, or InvalidSchemeManager when the request also names a
\* present manager whose status is not Valid.
C9_UnknownSchemeManager ==
    (AbsentManagers # {} /\ pc = "ended")
        => (/\ StoppedAtValidation
            /\ cb.Failure <= 1
            /\ cb.Cancelled = 0 => cb.Failure = 1
            /\ cb.Failure = 1 =>
                  \/ /\ lastFailure.ErrorType = "UnknownSchemeManager"
                     /\ lastFailure.Info \in AbsentManagers
                  \/ /\ InvalidManagers # {}
                     /\ lastFailure.ErrorType = "InvalidSchemeManager")

C9_Witness ==
    /\ pc = "ended"
    /\ session.ids = {"missing", "irma-demo"}
    /\ cb.Failure = 1
    /\ lastFailure = SessionError("UnknownSchemeManager", "missing")
    /\ net.delete = 1

\* C10 as claimed: a session whose request names a scheme manager that is
\* present with a status other than Valid fails with InvalidSchemeManager and
\* never reaches the download, candidate or consent steps.  Stated for
\* sessions the application does not dismiss.
C10_InvalidAsClaimed ==
    (InvalidManagers # {} /\ pc = "ended" /\ nDismiss = 0 /\ dpc = "idle")
        => (/\ cb.Failure = 1
            /\ lastFailure.ErrorType = "InvalidSchemeManager"
            /\ StoppedAtValidation)

\* C10, amended: such a session never reaches the download, candidate or
\* consent steps; unless a Dismiss() has cancelled it, it ends with exactly
\* one Failure, which is InvalidSchemeManager (Info the manager's status), or
\* UnknownSchemeManager when the request also names an absent manager.
C10_InvalidSchemeManager ==
    (InvalidManagers # {} /\ pc \notin {"fetching", "resolving", "fail", "failing"})
        => (/\ StoppedAtValidation
            /\ pc = "ended"
            /\ cb.Failure <= 1
            /\ cb.Cancelled = 0 => cb.Failure = 1
            /\ cb.Failure = 1 =>
                  \/ /\ lastFailure.ErrorType = "InvalidSchemeManager"
                     /\ \E id \in InvalidManagers : lastFailure.Info = schemeManagers[id].Status
                  \/ /\ AbsentManagers # {}
                     /\ lastFailure.ErrorType = "UnknownSchemeManager")

C10_Witness ==
    /\ pc = "ended"
    /\ session.ids = {"broken", "test"}
    /\ ~IsInteractive(session)
    /\ cb.Failure = 1
    /\ lastFailure = SessionError("InvalidSchemeManager", "IntegrityFailed")

\* The distributed scheme managers of ids with which the client is not
\* enrolled.
UnenrolledManagers(ids) ==
    {id \in ids \cap DOMAIN schemeManagers :
        schemeManagers[id].Distributed /\ id \notin keyshareServers}

\* C11, as claimed: a session whose identifier set contains a distributed
\* scheme manager the client is not enrolled with emits
\* KeyshareEnrollmentMissing and stops.  Stated for sessions the application
\* does not dismiss.
C11_EnrollmentAsClaimed ==
    (pc = "ended" /\ UnenrolledManagers(session.ids) # {} /\ nDismiss = 0 /\ dpc = "idle")
        => cb.KeyshareEnrollmentMissing = 1

\* C11: a session whose identifier set contains a distributed scheme manager
\* the client is not enrolled with never downloads a descriptor, never asks
\* for permission, never starts a keyshare session and never posts a
\* response; it emits KeyshareEnrollmentMissing once when every scheme
\* manager of the set is present and Valid, and otherwise fails at the
\* validation of the scheme managers without emitting it.
C11_EnrollmentMissing ==
    UnenrolledManagers(session.ids) # {}
        => /\ net.download = 0 /\ net.keyshare = 0 /\ net.post = 0
           /\ cb.RequestPermission = 0 /\ cb.Success = 0
           /\ pc = "ended" =>
                 cb.KeyshareEnrollmentMissing =
                     IF FailingManagers(session.ids) = {} THEN 1 ELSE 0

C11_Witness ==
    /\ pc = "ended"
    /\ IsInteractive(session)
    /\ "test" \in UnenrolledManagers(session.ids)
    /\ cb.KeyshareEnrollmentMissing = 1
    /\ net.get = 1

\* The session was made by NewManualSession.
IsManual == session.started /\ qr = NoQr

\* C12: a manual signature session sends no GET, no POST and no DELETE to a
\* requestor, whatever its outcome, and the result string its Handler.Success
\* receives is the JSON serialisation of the proof list.
C12_ManualSession ==
    IsManual
        => /\ net.get = 0 /\ net.post = 0 /\ net.delete = 0
           /\ cb.Success > 0 => lastSuccess = MarshalJSON("ProofList")

C12_Witness ==
    /\ IsManual
    /\ pc = "ended"
    /\ cb.Success = 1
    /\ lastSuccess = MarshalJSON("ProofList")
    /\ lastSuccess # ""
    /\ net.get + net.post + net.delete = 0

\* C13: every step that reports Failure or Cancelled for a session whose
\* download added descriptors also calls UpdateConfiguration, with the
\* downloaded identifier set; when the download added nothing or did not
\* happen, such a step does not call UpdateConfiguration.
C13_AnnouncedOnFailAndCancel ==
    [][(cb'.Failure > cb.Failure \/ cb'.Cancelled > cb.Cancelled)
          => IF session.downloaded = "nonempty"
             THEN /\ client'.UpdateConfiguration = client.UpdateConfiguration + 1
                  /\ client'.announced = DownloadedSet(session.downloaded)
             ELSE client'.UpdateConfiguration = client.UpdateConfiguration]_vars

\* C14: a panic raised in a session task is reported by Handler.Failure,
\* with error type ErrorPanic and the string representation of the panic
\* value as Info.
C14_PanicSurfaces ==
    panicked # NoPanic
        => /\ cb.Failure >= 1
           /\ lastFailure = SessionError("ErrorPanic", panicked.text)

\* C15: a session in which the keyshare server blocked the user, so that
\* KeyshareBlocked was emitted, ends with exactly one Failure, of type
\* Keyshare, and is done.  Stated for sessions the application does not
\* dismiss.
C15_BlockedEndsInKeyshareFailure ==
    (cb.KeyshareBlocked > 0 /\ pc = "ended" /\ nDismiss = 0 /\ dpc = "idle")
        => /\ cb.Failure = 1
           /\ lastFailure.ErrorType = "Keyshare"
           /\ session.done

\* C16: a disclosure or signature session whose POST of the proofs the
\* requestor answered with a string other than "VALID" ends with exactly one
\* Failure, of type Rejected with that string as Info, without Success and
\* without a new log entry.  Stated for sessions the application does not
\* dismiss.
C16_RejectedFails ==
    (net.response \in ProofResponses /\ Rejects(net.response)
       /\ pc = "ended" /\ nDismiss = 0 /\ dpc = "idle")
        => /\ cb.Failure = 1
           /\ lastFailure = SessionError("Rejected", net.response)
           /\ cb.Success = 0
           /\ client.logs = EarlierLogs

\* The session is a scheme-manager installation session.
IsManagerSession == session.Action = "schememanager"

\* C17: in a scheme-manager session, once the user has consented and the
\* installation has succeeded, the Configuration holds the scheme manager
\* and UpdateConfiguration has been called, once, with the identifier set
\* that holds this scheme manager and nothing else; the step that invokes
\* Handler.Success finds all this done and calls nothing but Success.
C17_ManagerInstalled ==
    /\ [](IsManagerSession /\ permission = "granted"
             /\ (pc = "managerInstalled" \/ cb.Success > 0)
            => /\ session.manager.name \in DOMAIN schemeManagers
               /\ client.UpdateConfiguration = 1
               /\ client.announced = IdentifierSet({session.manager.name}, {}, {}))
    /\ [][(IsManagerSession /\ cb'.Success > cb.Success)
            => /\ session.manager.name \in DOMAIN schemeManagers
               /\ client.UpdateConfiguration = 1
               /\ client.announced = IdentifierSet({session.manager.name}, {}, {})
               /\ client' = client
               /\ schemeManagers' = schemeManagers]_vars

C17_Witness ==
    /\ IsManagerSession
    /\ pc = "ended"
    /\ cb.Success = 1
    /\ "missing" \in DOMAIN schemeManagers
    /\ client.announced = IdentifierSet({"missing"}, {}, {})

\* C18: in a scheme-manager session in which the user declined, Cancelled is
\* invoked, the Configuration is the one the client started with, and neither
\* UpdateConfiguration nor Success is invoked.
C18_ManagerDeclined ==
    (IsManagerSession /\ permission = "declined")
        => /\ cb.Cancelled >= 1
           /\ cb.Failure = 0
           /\ cb.Success = 0
           /\ "missing" \notin DOMAIN schemeManagers
           /\ \E status \in InvalidStatuses : schemeManagers = InitConfiguration(status)
           /\ client.UpdateConfiguration = 0
           /\ client.announced = NoIdentifiers

C18_Witness ==
    /\ IsManagerSession
    /\ pc = "ended"
    /\ permission = "declined"
    /\ cb.RequestSchemeManagerPermission = 1
    /\ cb.Cancelled = 1
    /\ nDismiss = 0
    /\ "missing" \notin DOMAIN schemeManagers

\* C19: the session log only grows at its end, by one entry in a step; an
\* interactive session appends an entry only together with its Success and
\* only when it has not reported Failure, Cancelled or UnsatisfiableRequest
\* before, and a session that ended with Success alone has appended exactly
\* one entry.
C19_LogAppendOnly ==
    /\ [](/\ Len(client.logs) >= Len(EarlierLogs)
          /\ SubSeq(client.logs, 1, Len(EarlierLogs)) = EarlierLogs
          /\ (IsInteractive(session) /\ ~IsManagerSession /\ pc = "ended" /\ cb.Success > 0)
                => Len(client.logs) = Len(EarlierLogs) + 1)
    /\ [][(IsInteractive(session) /\ client'.logs # client.logs)
            => /\ Len(client'.logs) = Len(client.logs) + 1
               /\ SubSeq(client'.logs, 1, Len(client.logs)) = client.logs
               /\ cb'.Success = cb.Success + 1
               /\ cb.Failure + cb.Cancelled + cb.UnsatisfiableRequest = 0]_vars

\* The attribute-map keys of the credential request are exactly the
\* attribute types its credential type declares, and the type is known.
MatchesCredentialType(cr) ==
    /\ cr.CredentialTypeID \in DOMAIN CredentialTypes
    /\ DOMAIN cr.Attributes =
          {CredentialTypes[cr.CredentialTypeID][i] :
              i \in 1..Len(CredentialTypes[cr.CredentialTypeID])}

Satisfiable(credentials, disjunctions) ==
    \A i \in 1..Len(disjunctions) : Candidates(credentials, disjunctions[i]) # <<>>

\* The step in which start() or NewManualSession() comes back from
\* CheckSatisfiability and acts on its result.
SatisfiabilityChecked ==
    pc = "checking" /\ pc' \in {"awaiting", "ended"} /\ panicked' = panicked

\* C21: the session asks the user for permission exactly when every
\* disjunction of the request has at least one candidate; when some
\* disjunction has none the handler receives UnsatisfiableRequest with a
\* non-empty list of what is missing, and the permission request is never made.
C21_PermissionIffSatisfiable ==
    /\ [](cb.UnsatisfiableRequest > 0 =>
            /\ cb.UnsatisfiableRequest = 1
            /\ cb.RequestPermission = 0
            /\ session.missing # <<>>
            /\ \A i \in 1..Len(session.missing) :
                  \E j \in 1..Len(session.disjunctions) :
                      session.missing[i] = session.disjunctions[j])
    /\ [][/\ cb'.RequestPermission # cb.RequestPermission =>
                /\ SatisfiabilityChecked
                /\ Satisfiable(client.credentials, session'.disjunctions)
          /\ cb'.UnsatisfiableRequest # cb.UnsatisfiableRequest =>
                /\ SatisfiabilityChecked
                /\ ~Satisfiable(client.credentials, session'.disjunctions)
                /\ \A i \in 1..Len(session'.missing) :
                      Candidates(client.credentials, session'.missing[i]) = <<>>
          /\ SatisfiabilityChecked =>
                IF Satisfiable(client.credentials, session'.disjunctions)
                THEN cb'.RequestPermission = cb.RequestPermission + 1
                ELSE cb'.UnsatisfiableRequest = cb.UnsatisfiableRequest + 1]_vars

\* A request with a disjunction the wallet can answer and one it cannot has
\* been reported as unsatisfiable, with the one disjunction as missing.
C21_Witness ==
    /\ cb.UnsatisfiableRequest = 1
    /\ Len(session.disjunctions) = 2
    /\ Len(session.missing) = 1
    /\ Candidates(client.credentials, session.disjunctions[1]) # <<>>

\* The latest call was Candidates, and each reference it returned points to a
\* stored credential of the credential type of an attribute of the
\* disjunction, holding the value the disjunction requires of the attribute.
CandidatesSound ==
    call.op = "Candidates" =>
        \A i \in 1..Len(call.result) :
            LET ref == call.result[i]
            IN  /\ \E j \in 1..Len(call.disjunction.Attributes) :
                      call.disjunction.Attributes[j] = ref.Type
                /\ \E c \in client.credentials :
                      /\ Hash(c) = ref.CredentialHash
                      /\ c.type = CredentialTypeIdentifier(ref.Type)
                      /\ ref.Type \in DOMAIN call.disjunction.Values =>
                            c.values[ref.Type[4]] = call.disjunction.Values[ref.Type]

\* The student cards of the wallet.
StudentCards == {c \in client.credentials : c.type = StudentCard}

\* What TestCandidates finds: one reference to the student number when the
\* disjunction requires "456" or no value, none when it requires "foobarbaz".
AsTestCandidates ==
    call.op = "Candidates" /\ call.disjunction.Attributes = <<StudentID>> =>
        IF StudentID \in DOMAIN call.disjunction.Values
           /\ call.disjunction.Values[StudentID] # "456"
        THEN call.result = <<>>
        ELSE Len(call.result) = 1 /\ call.result[1].Type = StudentID

Removals == {"RemoveCredential", "RemoveCredentialByHash"}

\* This step removes, by its place or by its hash, the credential the latest
\* call has removed.
RemovesAgain ==
    /\ call.op \in Removals
    /\ call.hash # Hash(NoCredential)
    /\ call.id # <<>>
    /\ call'.op \in Removals
    /\ \/ call'.op = "RemoveCredential" /\ call'.id = call.id /\ call'.index = call.index
       \/ call'.op = "RemoveCredentialByHash" /\ call'.hash = call.hash

\* C23: after a credential has been removed, by RemoveCredential(type, index)
\* or by RemoveCredentialByHash(hash), credential(type, index) finds no
\* credential; and removing the same credential once more, by either of the
\* two, leaves the wallet as it is.
C23_RemovalIdempotent ==
    /\ [](call.op \in Removals /\ call.id # <<>> =>
            /\ credential(client.credentials, call.id, call.index) = NoCredential
            /\ \A c \in client.credentials : Hash(c) # call.hash)
    /\ [](call.op = "credential" /\ call.result = NoCredential =>
            \A c \in client.credentials : ~(c.type = call.id /\ c.index = call.index))
    /\ [][RemovesAgain => client'.credentials = client.credentials]_vars

\* The student card of the test storage has been removed by its hash, and
\* the MijnIRMA login is still there.
C23_Witness ==
    /\ call.op = "RemoveCredentialByHash"
    /\ call.id = StudentCard
    /\ call.index = 0
    /\ client.credentials = {c \in TestStorage : c.type = MijnIrma}

\* C24: after ParseFolder() has met a scheme manager that fails parsing or
\* signature verification, the scheme manager is among the disabled scheme
\* managers, it still has its entry in Configuration.SchemeManagers, and the
\* status of the entry is not Valid.
C24_FailedManagerDisabled ==
    call.op = "ParseFolder" =>
        /\ \A id \in DOMAIN call.outcomes :
              call.outcomes[id] # "Valid" =>
                  /\ id \in call.DisabledSchemeManagers
                  /\ id \in DOMAIN schemeManagers
                  /\ schemeManagers[id].Status # "Valid"
        /\ call.err = "SchemeManagerError" <=> call.DisabledSchemeManagers # {}

\* ParseFolder() could not verify irma-demo, as in TestWrongSchemeManager.
C24_Witness ==
    /\ call.op = "ParseFolder"
    /\ call.err = "SchemeManagerError"
    /\ "irma-demo" \in call.DisabledSchemeManagers
    /\ "irma-demo" \in DOMAIN schemeManagers
    /\ schemeManagers["irma-demo"].Status = "InvalidSignature"

\* The content octets of the DER encoding of the INTEGER n >= 0: the
\* shortest two's complement representation of n, most significant byte first.
RECURSIVE IntegerLength(_, _)
IntegerLength(n, k) == IF n < Power(2, 8 * k - 1) THEN k ELSE IntegerLength(n, k + 1)

DerInteger(n) ==
    LET k == IntegerLength(n, 1)
    IN  <<2, k>> \o [i \in 1..k |-> (n \div Power(256, k - i)) % 256]

\* The DER encoding of SEQUENCE { INTEGER 2, INTEGER nonce, INTEGER digest },
\* the digest of the message taken as an unsigned number; no encoding exists
\* for a request without nonce.
DerSequence(sr) ==
    LET content == DerInteger(2) \o DerInteger(sr.Nonce[1])
                   \o DerInteger(SetBytes(Sum256(sr.Message)))
    IN  <<48, Len(content)>> \o content

\* C25: GetNonce on a signature request returns the digest of the DER
\* encoding of the sequence [INTEGER 2, nonce, digest of the message], byte
\* for byte, and leaves the nonce stored in the request as it was.
C25_GetNonce ==
    /\ [](call.op = "GetNonce" =>
            /\ call.request.Nonce # Nil
            /\ call.result.logged = ""
            /\ call.result.nonce = NewInt(SetBytes(Sum256(DerSequence(call.request)))))
    /\ [][call'.op = "GetNonce" => call'.request = call.request]_vars

\* A session with a requestor: created by NewSession for a QR that asks for
\* disclosure, signing or issuance.
WithRequestor == IsInteractive(session) /\ ~IsManagerSession

\* Every scheme manager the request names is in the Configuration and valid,
\* and the client is enrolled with those that are distributed.
Validated ==
    /\ \A id \in session.ids : id \in DOMAIN schemeManagers /\ schemeManagers[id].Valid
    /\ UnenrolledManagers(session.ids) = {}

\* Nothing of what follows the user's consent has happened yet.
NothingBuilt ==
    /\ permission = "none"
    /\ session.message = ""
    /\ net.keyshare = 0
    /\ net.post = 0
    /\ cb.Success = 0

\* C26: in a session with a requestor the steps come in the order of the
\* state machine: the GET of the request, the validation of the scheme
\* managers and the enrolment check, the download of descriptors, the
\* computation of candidates, the permission request, the construction of the
\* proof (through a keyshare session when a distributed scheme manager is
\* involved), the POST, Success; the permission request is made only when
\* validation, download and candidate computation have all succeeded.
C26_StepsInOrder ==
    [][WithRequestor =>
        /\ net'.get # net.get =>
              /\ net.get = 0 /\ net.download = 0 /\ cb.RequestPermission = 0
              /\ session.ids = {} /\ NothingBuilt
        /\ net'.download # net.download =>
              /\ net.get = 1 /\ net.download = 0 /\ cb.RequestPermission = 0
              /\ Validated /\ NothingBuilt
        /\ session'.disjunctions # session.disjunctions =>
              /\ net.download = 1 /\ cb.RequestPermission = 0 /\ NothingBuilt
        /\ cb'.RequestPermission # cb.RequestPermission =>
              /\ net.get = 1 /\ net.download = 1 /\ cb.RequestPermission = 0
              /\ Validated
              /\ session.downloaded # "nil"
              /\ cb.Failure = 0 /\ pc = "checking"
              /\ session'.missing = <<>>
              /\ Satisfiable(client.credentials, session'.disjunctions)
              /\ NothingBuilt
        /\ permission' # permission =>
              /\ cb.RequestPermission = 1 /\ session.message = ""
              /\ net.keyshare = 0 /\ net.post = 0
        /\ net'.keyshare # net.keyshare =>
              /\ permission = "granted" /\ Distributed(session.ids)
              /\ session.message = "" /\ net.keyshare = 0 /\ net.post = 0
        /\ session'.message # session.message =>
              /\ permission' = "granted" /\ net.post = 0
              /\ Distributed(session.ids) <=> net.keyshare = 1
        /\ net'.post # net.post =>
              /\ session.message # "" /\ net.post = 0 /\ cb.Success = 0
        /\ cb'.Success # cb.Success =>
              /\ net.post = 1 /\ cb.Success = 0 /\ cb.RequestPermission = 1]_vars

\* A session through a keyshare session has reached Success.
C26_Witness ==
    /\ WithRequestor
    /\ cb.Success = 1
    /\ Distributed(session.ids)
    /\ net.get = 1 /\ net.download = 1 /\ net.keyshare = 1 /\ net.post = 1
    /\ cb.RequestPermission = 1
    /\ Len(session.disjunctions) = 2

\* C27: no state of a session is entered again: the proof is built at most
\* once, the response is POSTed to the requestor at most once and Success is
\* delivered at most once, also when the handler invokes the permission
\* callback more than once.
C27_NothingTwice ==
    /\ [](~IsManagerSession => net.post <= 1 /\ cb.Success <= 1)
    /\ [][~IsManagerSession /\ pc' = "send" /\ pc # "send" => session.message = ""]_vars

\* The request of the session names a scheme manager that is distributed.
NamesDistributedManager ==
    \E id \in session.ids \cap DOMAIN schemeManagers : schemeManagers[id].Distributed

\* C28: after the user has consented, a keyshare session is started exactly
\* when the request names a distributed scheme manager; when it names none the
\* proof is built locally and sent without any keyshare session.
C28_KeyshareIffDistributed ==
    /\ [](~IsManagerSession =>
            /\ net.keyshare > 0 => NamesDistributedManager /\ permission = "granted"
            /\ ~NamesDistributedManager => net.keyshare = 0
            /\ net.post > 0 /\ NamesDistributedManager => net.keyshare = 1
            /\ pc = "send" /\ NamesDistributedManager => net.keyshare = 1)
    /\ [][~IsManagerSession /\ permission' = "granted" /\ permission # "granted" =>
            IF NamesDistributedManager
            THEN /\ session'.message = ""
                 /\ \/ pc' = "startkeyshare"
                    \/ pc' = "fail" /\ ret' = "startkeyshare"
            ELSE /\ net'.keyshare = 0
                 /\ \/ pc' = "send" /\ session'.message = Proof(session)
                    \/ pc' = "fail" /\ ret' = "ended" /\ session'.message = ""]_vars

\* The proof of a request that names a distributed scheme manager has gone to
\* the requestor after one keyshare session.
C28_Witness ==
    /\ ~IsManagerSession
    /\ NamesDistributedManager
    /\ permission = "granted"
    /\ net.keyshare = 1
    /\ net.post = 1
    /\ session.message # ""

\* No proof or commitment has been built, no keyshare session started, nothing
\* sent to the requestor, no credential added to the wallet.
NothingDone ==
    /\ session.message = ""
    /\ net.keyshare = 0
    /\ net.post = 0
    /\ cb.Success = 0
    /\ client.credentials = TestStorage
    /\ client.logs = EarlierLogs

\* C30: as long as the permission callback of the session has not been
\* invoked with proceed = true, no proof or commitment is built, none is
\* handed to a keyshare server or sent to the requestor, and the wallet gains
\* no credential; invoked with proceed = false, the callback cancels the
\* session and nothing is built.
C30_NothingWithoutConsent ==
    /\ [](~IsManagerSession /\ permission # "granted" => NothingDone)
    /\ [](~IsManagerSession /\ permission = "declined" /\ pc = "ended" =>
            cb.Cancelled >= 1 /\ session.done)
    /\ [][~IsManagerSession /\ permission' = "declined" /\ permission # "declined" =>
            pc' = "cancel" /\ session'.message = "" /\ net' = net]_vars

\* The user has refused an issuance request: the session has been cancelled.
C30_Witness ==
    /\ session.Action = "issuing"
    /\ Len(session.credentials) > 0
    /\ permission = "declined"
    /\ pc = "ended"
    /\ cb.Cancelled = 1
    /\ NothingDone

\* The credential types of the credentials to issue.
IssuedTypes(ir) == {ir.Credentials[i].CredentialTypeID : i \in 1..Len(ir.Credentials)}

\* The attributes of the disjunctions of Disclose.
DisclosedAttributes(ir) ==
    UNION {{ir.Disclose[i].Attributes[j] : j \in 1..Len(ir.Disclose[i].Attributes)} :
              i \in 1..Len(ir.Disclose)}

\* The first n parts of every identifier of the set.
Prefixes(ids, n) == {[k \in 1..n |-> id[k]] : id \in ids}

\* C29: for an issuance request Identifiers() returns the scheme managers,
\* the issuers and the credential types of the credentials to issue and of
\* the attributes of every disjunction of Disclose, and no others; a further
\* call returns the same set and leaves the request as it is.
C29_IssuanceIdentifiers ==
    /\ [](call.op = "Identifiers" =>
            LET ir == call.request
                named == IssuedTypes(ir) \cup DisclosedAttributes(ir)
                ids == call.result[1]
            IN  /\ ids.SchemeManagers = Prefixes(named, 1)
                /\ ids.Issuers = Prefixes(named, 2)
                /\ ids.CredentialTypes = Prefixes(named, 3))
    /\ [][call.op = "Identifiers" /\ call'.op = "Identifiers" =>
            call'.result = call.result /\ call'.request = call.request]_vars

\* Identifiers() has been called twice on a request that issues a MijnIRMA
\* credential and asks for the disclosure of a student number.
C29_Witness ==
    /\ call.op = "Identifiers"
    /\ call.calls = 2
    /\ IssuedTypes(call.request) = {MijnIrma}
    /\ DisclosedAttributes(call.request) = {StudentID}
    /\ call.result[1].SchemeManagers = {<<"test">>, <<"irma-demo">>}

\* C31: a scheme-manager installation session sends no DELETE to its session
\* URL, whether it ends in success, in a download or installation failure or
\* in the user's refusal, and also when the application calls Dismiss() on
\* the dismisser NewSession returned.
C31_ManagerSessionNoDelete ==
    IsManagerSession => net.delete = 0

\* The server has advertised the counter for the issuer: an item of "keys"
\* names the issuer with this counter.
Advertised(items, issuer, counter) ==
    \E i \in 1..Len(items) : items[i][1] = String(issuer) /\ items[i][2] = counter

\* C32: in an issuance session every credential request gets, before the
\* identifier set of the request is first computed, the key counter the
\* server has advertised in the keys of the SessionInfo for the issuer of the
\* credential; the public keys of the identifier set handed to the download
\* are those the server has advertised, and never the key counter the
\* request came with.
C32_KeyCountersAdvertised ==
    /\ call.op = "KeyCounters" =>
          /\ call.request.Ids = Nil
          /\ \A i \in 1..Len(call.request.Credentials) :
                LET cr == call.request.Credentials[i]
                IN  Advertised(call.items, IssuerIdentifier(cr.CredentialTypeID),
                               cr.KeyCounter)
    /\ call.op = "Download" =>
          \A issuer \in DOMAIN call.result[1].PublicKeys :
              \A k \in 1..Len(call.result[1].PublicKeys[issuer]) :
                  Advertised(call.items, issuer, call.result[1].PublicKeys[issuer][k])

====
